---- MODULE Spec2Model ----
(***************************************************************************)
(* Model of the dev-dashboard synchronisation subsystem: the record store  *)
(* (microservices, deployments, actions), the reconciliation operations of *)
(* the sync service, the kustomization scanner of the GitHub client and    *)
(* the tag/commit correlation heuristic.                                   *)
(*                                                                         *)
(* Go strings are modelled as sequences of one-character strings, so that  *)
(* strings.Contains, strings.Split, strings.Trim ... are computed, not     *)
(* assumed.                                                                *)
(***************************************************************************)
EXTENDS Integers, Sequences, FiniteSets, TLC

VARIABLES
    repositories,   \* table repositories: id -> row
    microservices,  \* table microservices: set of rows
    deployments,    \* table deployments
    actions,        \* table actions
    resources,      \* table kubernetes_resources
    seq,            \* sqlite_sequence: last AUTOINCREMENT id handed out, per table
    k8s,            \* per caller: where its syncKubernetesRepo stands
    ops,            \* number of syncs and rediscoveries started so far
    last,           \* the operation that made the last step, with its inputs and result
    fnIn,           \* input of the pure function under check (a record)
    fnOut,          \* its output
    fnPc,           \* "idle" | "ready" | "scan" | "done"
    sched           \* the background loop of Start, its ticker, and the passes in progress

storeVars == <<repositories, microservices, deployments, actions, resources, seq>>

fnVars == <<fnIn, fnOut, fnPc>>

vars == <<repositories, microservices, deployments, actions, resources, seq, k8s, ops, last,
          fnIn, fnOut, fnPc, sched>>

(***************************************************************************)
(* Bounds                                                                  *)
(***************************************************************************)
MaxLines == 4       \* lines of an overlay file
MaxFiles == 2       \* kustomization.yaml files found by one scan
MaxCommits == 2     \* commits returned for a service path (the code asks for 50)
MaxOps == 2         \* syncs and rediscoveries started in one run

(***************************************************************************)
(* Go's strings package, over sequences of characters                      *)
(***************************************************************************)
HasPrefix(s, p) == Len(p) <= Len(s) /\ SubSeq(s, 1, Len(p)) = p

Contains(s, sub) ==
    \E i \in 0..(Len(s) - Len(sub)) : SubSeq(s, i + 1, i + Len(sub)) = sub

RECURSIVE TrimLeft(_, _)
TrimLeft(s, cutset) ==
    IF s # <<>> /\ Head(s) \in cutset THEN TrimLeft(Tail(s), cutset) ELSE s

RECURSIVE TrimRight(_, _)
TrimRight(s, cutset) ==
    IF s # <<>> /\ s[Len(s)] \in cutset
    THEN TrimRight(SubSeq(s, 1, Len(s) - 1), cutset)
    ELSE s

Trim(s, cutset) == TrimRight(TrimLeft(s, cutset), cutset)

TrimSpace(s) == Trim(s, {" "})

TrimPrefix(s, p) == IF HasPrefix(s, p) THEN SubSeq(s, Len(p) + 1, Len(s)) ELSE s

\* strings.Split(s, sep) for a one-character separator
RECURSIVE SplitFrom(_, _, _, _)
SplitFrom(s, sep, i, cur) ==
    IF i > Len(s) THEN <<cur>>
    ELSE IF s[i] = sep THEN <<cur>> \o SplitFrom(s, sep, i + 1, <<>>)
    ELSE SplitFrom(s, sep, i + 1, Append(cur, s[i]))

Split(s, sep) == SplitFrom(s, sep, 1, <<>>)

UpperCase == <<"A","B","C","D","E","F","G","H","I","J","K","L","M",
              "N","O","P","Q","R","S","T","U","V","W","X","Y","Z">>
LowerCase == <<"a","b","c","d","e","f","g","h","i","j","k","l","m",
              "n","o","p","q","r","s","t","u","v","w","x","y","z">>

LowerMap ==
    [c \in {UpperCase[i] : i \in 1..Len(UpperCase)} |->
        LowerCase[CHOOSE i \in 1..Len(UpperCase) : UpperCase[i] = c]]

\* unicode.ToLower on the ASCII range
LowerOf(c) == IF c \in DOMAIN LowerMap THEN LowerMap[c] ELSE c

ToLower(s) == [i \in 1..Len(s) |-> LowerOf(s[i])]

EqualFold(s, t) == ToLower(s) = ToLower(t)

RECURSIVE Join(_, _)
Join(parts, sep) ==
    IF parts = <<>> THEN <<>>
    ELSE IF Len(parts) = 1 THEN parts[1]
    ELSE parts[1] \o <<sep>> \o Join(Tail(parts), sep)

\* all sequences over S of length at most n
RECURSIVE SeqsUpTo(_, _)
SeqsUpTo(S, n) ==
    IF n = 0 THEN {<<>>}
    ELSE LET shorter == SeqsUpTo(S, n - 1)
         IN  shorter \cup {Append(q, e) : q \in {t \in shorter : Len(t) = n - 1}, e \in S}

(***************************************************************************)
(* The record store after NewDB: empty tables, no id handed out yet.       *)
(***************************************************************************)
Callers == {"sched", "manual"}   \* the background loop; App.SyncRepository

MonoRepoID == 1     \* the registered monorepo
KubeRepoID == 2     \* the registered kubernetes repository

sApps == <<"a","p","p","s">>
sK8s  == <<"k","8","s">>

\* The two registered repositories; serviceName is the monorepo's optional
\* service_name, its service_location being "apps"; the kubernetes repository's
\* service_location (its root path) is "k8s".
Registered(serviceName) ==
    [id \in {MonoRepoID, KubeRepoID} |->
        IF id = MonoRepoID
        THEN [ID |-> id, Type |-> "monorepo", ServiceName |-> serviceName,
              ServiceLocation |-> sApps, LastSyncAt |-> 0]
        ELSE [ID |-> id, Type |-> "kubernetes", ServiceName |-> <<>>,
              ServiceLocation |-> sK8s, LastSyncAt |-> 0]]

NoOp == [kind |-> "none"]

IdleCtx == [pc |-> "idle", queue |-> <<>>, services |-> <<>>, cur |-> <<>>, existingID |-> 0]

\* Start not yet called: no background loop, no ticker, context not cancelled,
\* no pass in progress
SchedIdle == [pc |-> "notStarted", cancelled |-> FALSE, tick |-> FALSE, begun |-> 0,
              running |-> <<>>]

StoreIdle ==
    /\ repositories = Registered(<<>>)
    /\ microservices = {}
    /\ deployments = {}
    /\ actions = {}
    /\ resources = {}
    /\ seq = [microservices |-> 0, deployments |-> 0, actions |-> 0, resources |-> 0]
    /\ k8s = [p \in Callers |-> IdleCtx]
    /\ ops = 0
    /\ last = NoOp
    /\ sched = SchedIdle

(***************************************************************************)
(* Overlay files (kustomization.yaml).  A line is kept with its structure  *)
(* (lead, key, value, quoting); the scanner only ever sees its text.       *)
(***************************************************************************)
kImages    == <<"i","m","a","g","e","s">>
kResources == <<"r","e","s","o","u","r","c","e","s">>
kName      == <<"n","a","m","e">>
kNewName   == <<"n","e","w","N","a","m","e">>
kNewTag    == <<"n","e","w","T","a","g">>

api == <<"a","p","i">>
web == <<"w","e","b">>
me  == <<"m","e">>
regApi == <<"r","/">> \o api
regWeb == <<"r","/">> \o web
v1 == <<"v","1">>
v2 == <<"v","2">>
v3 == <<"v","3">>

ldNone   == <<>>
ldDash   == <<"-"," ">>
ldIndent == <<" "," ">>

Line(lead, key, val, q) == [lead |-> lead, key |-> key, val |-> val, q |-> q]

\* the text of a line, as strings.Split(content, "\n") yields it
Text(l) ==
    l.lead \o l.key \o <<":">> \o
    (IF l.val = <<>> THEN <<>>
     ELSE <<" ">> \o (IF l.q THEN <<"\"">> ELSE <<>>) \o l.val
                  \o (IF l.q THEN <<"\"">> ELSE <<>>))

LineVocab == {
    Line(ldNone,   kImages,    <<>>,   FALSE),
    Line(ldNone,   kResources, <<>>,   FALSE),
    Line(ldDash,   kName,      api,    FALSE),
    Line(ldDash,   kName,      web,    FALSE),
    Line(ldIndent, kName,      api,    FALSE),
    Line(ldIndent, kNewName,   regApi, FALSE),
    Line(ldIndent, kNewTag,    v1,     TRUE),
    Line(ldIndent, kNewTag,    v2,     FALSE),
    Line(ldDash,   kNewTag,    v3,     FALSE) }

Contents == SeqsUpTo(LineVocab, MaxLines)

TargetNames == {api, me}

(***************************************************************************)
(* Client.extractImageTagFromKustomization                                 *)
(***************************************************************************)
\* one iteration of the line loop; st = [inImages, inService, ret, tag]
ExtractStep(st, originalLine, serviceName) ==
    LET line == TrimSpace(originalLine) IN
    IF line = kImages \o <<":">>
    THEN [st EXCEPT !.inImagesSection = TRUE]
    ELSE IF ~st.inImagesSection THEN st
    ELSE IF Len(line) > 0 /\ ~HasPrefix(originalLine, <<" ">>)
            /\ ~HasPrefix(line, <<"-">>) /\ line # <<"-","-","-">>
    THEN [st EXCEPT !.inImagesSection = FALSE, !.inServiceImage = FALSE]
    ELSE IF Contains(line, kName \o <<":">>) /\ Contains(line, serviceName)
    THEN [st EXCEPT !.inServiceImage = TRUE]
    ELSE IF Contains(line, kNewName \o <<":">>) /\ Contains(line, serviceName)
    THEN [st EXCEPT !.inServiceImage = TRUE]
    ELSE IF st.inServiceImage /\ Contains(line, kNewTag \o <<":">>)
            /\ Len(Split(line, ":")) >= 2
    THEN [st EXCEPT !.returned = TRUE,
                    !.tag = Trim(TrimSpace(Split(line, ":")[2]), {"\"", "'"})]
    ELSE IF HasPrefix(line, <<"-">>)
    THEN [st EXCEPT !.inServiceImage = FALSE]
    ELSE st

RECURSIVE ExtractLoop(_, _, _, _)
ExtractLoop(lines, i, st, serviceName) ==
    IF st.returned THEN st.tag
    ELSE IF i > Len(lines) THEN <<>>
    ELSE ExtractLoop(lines, i + 1, ExtractStep(st, lines[i], serviceName), serviceName)

\* content is the sequence of the file's lines (their texts)
extractImageTagFromKustomization(content, serviceName) ==
    ExtractLoop(content, 1,
                [inImagesSection |-> FALSE, inServiceImage |-> FALSE,
                 returned |-> FALSE, tag |-> <<>>],
                serviceName)

TextOf(content) == [i \in 1..Len(content) |-> Text(content[i])]

(***************************************************************************)
(* Specification of the tag extraction: any overlay content, any target    *)
(***************************************************************************)
InitTag ==
    /\ StoreIdle
    /\ fnIn \in [content : Contents, serviceName : TargetNames]
    /\ fnOut = <<>>
    /\ fnPc = "ready"

ExtractTag ==
    /\ fnPc = "ready"
    /\ fnOut' = extractImageTagFromKustomization(TextOf(fnIn.content), fnIn.serviceName)
    /\ fnPc' = "done"
    /\ UNCHANGED <<fnIn, storeVars, k8s, ops, last, sched>>

NextTag == ExtractTag

SpecTag == InitTag /\ [][NextTag]_vars

(***************************************************************************)
(* The structure of an overlay file, read off the lines' fields (not their *)
(* text): the images: block runs from an unindented "images:" line to the  *)
(* next unindented line that is no list item; inside it every list-item    *)
(* line ("- ...") opens an entry, which the indented lines after it        *)
(* continue.  Lines between "images:" and the first item count as an entry *)
(* of their own.                                                           *)
(***************************************************************************)
RECURSIVE Annot(_, _, _, _)
Annot(content, i, inB, e) ==
    IF i > Len(content) THEN <<>>
    ELSE LET l == content[i] IN
         IF l.lead = ldNone /\ l.key = kImages
         THEN <<[blk |-> FALSE, ent |-> 0]>> \o Annot(content, i + 1, TRUE, i)
         ELSE IF inB /\ l.lead = ldNone
         THEN <<[blk |-> FALSE, ent |-> 0]>> \o Annot(content, i + 1, FALSE, 0)
         ELSE IF inB /\ l.lead = ldDash
         THEN <<[blk |-> TRUE, ent |-> i]>> \o Annot(content, i + 1, TRUE, i)
         ELSE <<[blk |-> inB, ent |-> e]>> \o Annot(content, i + 1, inB, e)

EntryIds(content) ==
    LET a == Annot(content, 1, FALSE, 0)
    IN  {a[i].ent : i \in {j \in 1..Len(content) : a[j].blk}}

EntryLines(content, e) ==
    LET a == Annot(content, 1, FALSE, 0)
    IN  {i \in 1..Len(content) : a[i].blk /\ a[i].ent = e}

EntryNames(content, e) ==
    {content[i].val : i \in {j \in EntryLines(content, e) :
                                content[j].key \in {kName, kNewName}}}

EntryTagLines(content, e) ==
    {i \in EntryLines(content, e) : content[i].key = kNewTag}

Min(S) == CHOOSE x \in S : \A y \in S : x <= y

EntryTag(content, e) == content[Min(EntryTagLines(content, e))].val

EntryMatches(content, e, S) == \E n \in EntryNames(content, e) : Contains(n, S)

\* C7: if the images: block has an entry whose name or newName value contains
\* the target S and that entry has a newTag field (before or after the name
\* fields), extraction returns that entry's newTag value, unquoted (the first
\* such entry's, when there are several).
C7_TagOfMatchingEntry ==
    fnPc = "done" =>
        LET c == fnIn.content
            Q == {e \in EntryIds(c) : EntryMatches(c, e, fnIn.serviceName)
                                      /\ EntryTagLines(c, e) # {}}
        IN  Q # {} => fnOut = EntryTag(c, Min(Q))

\* C8: if there is no images: block, or no entry of it has a name or newName
\* value containing the target, extraction returns the empty string, for every
\* target name (also one that is a substring of the field keys).
C8_NoMatchYieldsEmpty ==
    fnPc = "done" =>
        LET c == fnIn.content
        IN  (\A e \in EntryIds(c) : ~EntryMatches(c, e, fnIn.serviceName))
                => fnOut = <<>>

(***************************************************************************)
(* Client.ScanKustomizationFiles: the paths found by the traversal, the    *)
(* coordinates derived from each path, the tag read from its content.      *)
(***************************************************************************)
sServices == <<"s","e","r","v","i","c","e","s">>
sOverlays == <<"o","v","e","r","l","a","y","s">>
sBase     == <<"b","a","s","e">>
sKustomization ==
    <<"k","u","s","t","o","m","i","z","a","t","i","o","n",".","y","a","m","l">>
prd == <<"p","r","d">>
stg == <<"s","t","g">>
us  == <<"u","s">>
eu  == <<"e","u">>
nsa == <<"n","s","a">>
nsb == <<"n","s","b">>
k8sCommit == <<"k","8","c">>    \* latest commit of the manifest file

\* paths below the traversal root "services", as lists of segments
SegVocab == {
    <<sServices, api, sOverlays, prd, us, nsa, sKustomization>>,
    <<sServices, web, sOverlays, stg, eu, nsb, sKustomization>>,
    <<sServices, api, sOverlays, prd, us, sKustomization>>,
    <<sServices, api, sKustomization>>,
    <<sServices, api, sBase, prd, us, nsa, sKustomization>>,
    <<sServices, api, sOverlays, prd, us, nsa, eu, sKustomization>> }

ContentApiV1 == << Line(ldNone, kImages, <<>>, FALSE), Line(ldDash, kName, api, FALSE),
                   Line(ldIndent, kNewTag, v1, TRUE) >>
ContentWebV2 == << Line(ldNone, kImages, <<>>, FALSE), Line(ldDash, kName, web, FALSE),
                   Line(ldIndent, kNewTag, v2, FALSE) >>
ContentApiV2 == << Line(ldNone, kImages, <<>>, FALSE), Line(ldDash, kName, api, FALSE),
                   Line(ldIndent, kNewTag, v2, FALSE) >>
ContentNoImages == << Line(ldNone, kResources, <<>>, FALSE) >>

\* what the remote answers for one found file: its path, whether GetContents
\* succeeds, the content, and the file's latest commit (<<>>: none listed)
RemoteFile(segs, fetch, content, commit) ==
    [segs |-> segs, path |-> Join(segs, "/"), fetch |-> fetch,
     content |-> content, commit |-> commit]

FileVocab ==
    {RemoteFile(sg, "ok", c, k8sCommit) :
        sg \in SegVocab, c \in {ContentApiV1, ContentWebV2, ContentNoImages}}
    \cup {RemoteFile(sg, "err", <<>>, k8sCommit) : sg \in SegVocab}

FileLists == SeqsUpTo(FileVocab, MaxFiles)

PathCoords_OffByOne(path) ==
    LET pathParts == Split(path, "/") IN
    IF Len(pathParts) < 7 \/ pathParts[1] # sServices \/ pathParts[3] # sOverlays
    THEN [ok |-> FALSE]
    ELSE [ok |-> TRUE, ServiceName |-> pathParts[2], Environment |-> pathParts[3],
          Region |-> pathParts[4], Namespace |-> pathParts[5]]

\* client.go:341-350
PathCoords(path) ==
    LET pathParts == Split(path, "/") IN
    IF Len(pathParts) < 7 \/ pathParts[1] # sServices \/ pathParts[3] # sOverlays
    THEN [ok |-> FALSE]
    ELSE [ok |-> TRUE, ServiceName |-> pathParts[2], Environment |-> pathParts[4],
          Region |-> pathParts[5], Namespace |-> pathParts[6]]

\* one iteration of the loop over the found paths: the deployments it appends
ScanOne(file) ==
    LET c == PathCoords(file.path) IN
    IF ~c.ok THEN <<>>
    ELSE IF file.fetch # "ok" THEN <<>>
    ELSE LET tag == extractImageTagFromKustomization(TextOf(file.content), c.ServiceName) IN
         IF tag = <<>> THEN <<>>
         ELSE << [ServiceName |-> c.ServiceName, Environment |-> c.Environment,
                  Region |-> c.Region, Namespace |-> c.Namespace, Tag |-> tag,
                  Path |-> file.path, CommitSHA |-> file.commit] >>

RECURSIVE ScanKustomizationFiles(_)
ScanKustomizationFiles(files) ==
    IF files = <<>> THEN <<>>
    ELSE ScanOne(Head(files)) \o ScanKustomizationFiles(Tail(files))

InitScan ==
    /\ StoreIdle
    /\ fnIn \in [files : FileLists]
    /\ fnOut = [next |-> 1, deployments |-> <<>>]
    /\ fnPc = "scan"

ScanFile ==
    /\ fnPc = "scan"
    /\ fnOut.next <= Len(fnIn.files)
    /\ fnOut' = [next |-> fnOut.next + 1,
                 deployments |-> fnOut.deployments \o ScanOne(fnIn.files[fnOut.next])]
    /\ UNCHANGED <<fnIn, fnPc, storeVars, k8s, ops, last, sched>>

ScanReturn ==
    /\ fnPc = "scan"
    /\ fnOut.next > Len(fnIn.files)
    /\ fnPc' = "done"
    /\ UNCHANGED <<fnIn, fnOut, storeVars, k8s, ops, last, sched>>

NextScan == ScanFile \/ ScanReturn

SpecScan == InitScan /\ [][NextScan]_vars

\* the expected layout services/<svc>/overlays/<env>/<region>/<ns>/kustomization.yaml
IsOverlayPath(segs) ==
    /\ Len(segs) = 7
    /\ segs[1] = sServices
    /\ segs[3] = sOverlays
    /\ segs[7] = sKustomization

DeploymentsOf(path) ==
    {i \in 1..Len(fnOut.deployments) : fnOut.deployments[i].Path = path}

sRelease == <<"r","e","l","e","a","s","e","-">>
tagRel2  == sRelease \o <<"2">>
tagV2    == <<"v","2">>
NIL      == <<"<nil>">>      \* a nil pointer field of a remote answer

MessageVocab == {
    <<"f","i","x">>,
    <<"b","u","m","p"," ","2">>,
    sRelease \o <<"2">>,
    <<"R","E","L","E","A","S","E","-","2">>,
    <<"s","h","i","p"," ","V","2">>,
    NIL }

CommitSha(i) == <<"c", ToString(i)>>
gitTagSha == <<"t","1">>

\* the i-th listed commit carries sha c<i>
CommitLists ==
    {[i \in 1..Len(ms) |-> [SHA |-> CommitSha(i), Message |-> ms[i]]] :
        ms \in SeqsUpTo(MessageVocab, MaxCommits)}

GitTagLists ==
    {<<>>} \cup {<<[Name |-> n, SHA |-> gitTagSha]>> :
                    n \in {<<"V","2">>, tagRel2, <<"v","9">>}}

\* what the monorepo's remote answers: the commits of the service path and
\* the repository's tags, or an error for either call
Remotes ==
    [commitsErr : BOOLEAN, commits : CommitLists, tagsErr : BOOLEAN, tags : GitTagLists]

\* part_007:463-485, the loop over the listed commits; "" (<<>>) when none matches
RECURSIVE MatchCommits(_, _, _)
MatchCommits(commits, i, tag) ==
    IF i > Len(commits) THEN <<>>
    ELSE LET commit == commits[i] IN
         IF commit.SHA = NIL \/ commit.Message = NIL
         THEN MatchCommits(commits, i + 1, tag)
         ELSE IF Contains(ToLower(commit.Message), ToLower(tag))
         THEN commit.SHA
         ELSE IF Contains(tag, sRelease)
                 /\ Contains(ToLower(commit.Message), TrimPrefix(tag, sRelease))
         THEN commit.SHA
         ELSE MatchCommits(commits, i + 1, tag)

\* part_007:488-498
RECURSIVE MatchGitTags(_, _, _)
MatchGitTags(tags, i, tag) ==
    IF i > Len(tags) THEN <<>>
    ELSE IF tags[i].Name # NIL /\ tags[i].SHA # NIL /\ EqualFold(tags[i].Name, tag)
    THEN tags[i].SHA
    ELSE MatchGitTags(tags, i + 1, tag)

\* part_007:446-502, once service and repository have been looked up
CorrelateRemote(tag, remote) ==
    IF remote.commitsErr THEN <<>>
    ELSE LET sha == MatchCommits(remote.commits, 1, tag) IN
         IF sha # <<>> THEN sha
         ELSE IF ~remote.tagsErr THEN MatchGitTags(remote.tags, 1, tag)
         ELSE <<>>

InitCorr ==
    /\ StoreIdle
    /\ fnIn \in [tag : {tagRel2, tagV2}, remote : Remotes]
    /\ fnOut = <<>>
    /\ fnPc = "ready"

Correlate ==
    /\ fnPc = "ready"
    /\ fnOut' = CorrelateRemote(fnIn.tag, fnIn.remote)
    /\ fnPc' = "done"
    /\ UNCHANGED <<fnIn, storeVars, k8s, ops, last, sched>>

NextCorr == Correlate

SpecCorr == InitCorr /\ [][NextCorr]_vars

MessagesWith(commits, sub) ==
    {i \in 1..Len(commits) :
        /\ commits[i].Message # NIL
        /\ Contains(ToLower(commits[i].Message), ToLower(sub))}

\* C10: for a non-SHA tag the strategies are tried in order: if some fetched
\* commit message contains the raw tag (ignoring case) the first such commit's
\* SHA is returned; only if none does and the tag is release-<version>, the
\* first commit whose message contains <version> is returned.
C10_OrderedStrategies ==
    (fnPc = "done" /\ ~fnIn.remote.commitsErr) =>
        LET cs  == fnIn.remote.commits
            raw == MessagesWith(cs, fnIn.tag)
            ver == IF HasPrefix(fnIn.tag, sRelease)
                   THEN MessagesWith(cs, TrimPrefix(fnIn.tag, sRelease))
                   ELSE {}
        IN  /\ raw # {} => fnOut = cs[Min(raw)].SHA
            /\ (raw = {} /\ ver # {}) => fnOut = cs[Min(ver)].SHA

(***************************************************************************)
(* SQL helpers: BINARY collation for ORDER BY name, rows in rowid order.   *)
(***************************************************************************)
Alphabet == << "-", "/", "0", "1", "2", "3", "4", "5", "6", "7", "8", "9",
               "A", "D", "E", "M", "R",
               "a", "b", "c", "d", "e", "f", "g", "h", "i", "j", "k", "l", "m",
               "n", "o", "p", "q", "r", "s", "t", "u", "v", "w", "x", "y", "z",
               "|" >>

Ord(c) == CHOOSE i \in 1..Len(Alphabet) : Alphabet[i] = c

RECURSIVE Less(_, _)
Less(s, t) ==
    IF t = <<>> THEN FALSE
    ELSE IF s = <<>> THEN TRUE
    ELSE IF s[1] = t[1] THEN Less(Tail(s), Tail(t))
    ELSE Ord(s[1]) < Ord(t[1])

\* ORDER BY name (rows of equal name in rowid order)
RECURSIVE OrderByName(_)
OrderByName(rows) ==
    IF rows = {} THEN <<>>
    ELSE LET first == CHOOSE r \in rows : \A o \in rows \ {r} :
                          Less(r.Name, o.Name) \/ (r.Name = o.Name /\ r.ID < o.ID)
         IN  <<first>> \o OrderByName(rows \ {first})

TrimSuffix(s, x) ==
    IF Len(x) <= Len(s) /\ SubSeq(s, Len(s) - Len(x) + 1, Len(s)) = x
    THEN SubSeq(s, 1, Len(s) - Len(x)) ELSE s

(***************************************************************************)
(* Service discovery: one directory listing of the remote monorepo.        *)
(***************************************************************************)
sReadme == <<"R","E","A","D","M","E">>

DirEntry(name, type, description) ==
    [Name |-> name, Type |-> type, Description |-> description]

\* what GetContents answers for the service directory
DirVocab ==
    { [status |-> "error", entries |-> <<>>],       \* transport failure
      [status |-> "notfound", entries |-> <<>>] }   \* *github.ErrorResponse, 404
    \cup
    { [status |-> "ok", entries |-> e] : e \in {
        << DirEntry(sReadme, "file", ""), DirEntry(api, "dir", "d0") >>,
        << DirEntry(api, "dir", "d1"), DirEntry(web, "dir", "d0") >> } }

ServiceInfo(name, path, description) ==
    [Name |-> name, Path |-> path, Description |-> description]

\* the answers GetContents returns as a *github.ErrorResponse: GitHub answered
\* with an HTTP error status (404 not found, 403 forbidden, 5xx); "error" is a
\* failure without such an answer (transport)
ErrorResponses == {"notfound", "forbidden", "servererror"}

RECURSIVE ServiceDirs(_, _)
ServiceDirs(contents, servicePath) ==
    IF contents = <<>> THEN <<>>
    ELSE LET content == Head(contents)
             rest == ServiceDirs(Tail(contents), servicePath)
         IN  IF content.Type = "dir"
             THEN << ServiceInfo(content.Name, servicePath \o <<"/">> \o content.Name,
                                 content.Description) >> \o rest
             ELSE rest

DiscoverMicroservicesInPath(dir, path) ==
    LET cleaned == TrimPrefix(TrimSuffix(path, <<"/">>), <<".","/">>)
        servicePath == IF cleaned = <<>> THEN sServices ELSE cleaned
    IN  IF dir.status \in ErrorResponses THEN [err |-> "", services |-> <<>>]
        ELSE IF dir.status = "error" THEN [err |-> "discover", services |-> <<>>]
        ELSE [err |-> "", services |-> ServiceDirs(dir.entries, servicePath)]

DiscoverMicroservices(dir) == DiscoverMicroservicesInPath(dir, sServices)

(***************************************************************************)
(* MicroserviceModel.UpsertServicesPreserveID: one transaction.            *)
(***************************************************************************)
Key(name, path) == name \o <<"|">> \o path

\* existingServices: key -> the stored row (the last one scanned wins)
ExistingServices(rows, repositoryID) ==
    LET mine == {r \in rows : r.RepositoryID = repositoryID}
    IN  [k \in {Key(r.Name, r.Path) : r \in mine} |->
            CHOOSE r \in mine : /\ Key(r.Name, r.Path) = k
                                /\ \A o \in mine : Key(o.Name, o.Path) = k => o.ID <= r.ID]

\* UNIQUE(repository_id, name) of table microservices
MicroserviceUnique(rows, repositoryID, name) ==
    ~ \E r \in rows : r.RepositoryID = repositoryID /\ r.Name = name

\* the loop "Process new services"; tx = [rows, seq, err]
RECURSIVE ProcessNewServices(_, _, _, _, _)
ProcessNewServices(tx, existingServices, repositoryID, services, i) ==
    IF i > Len(services) THEN tx
    ELSE LET newService == services[i]
             key == Key(newService.Name, newService.Path)
         IN  IF key \in DOMAIN existingServices
             THEN ProcessNewServices(
                    [tx EXCEPT !.rows =
                        { IF r.ID = existingServices[key].ID
                          THEN [r EXCEPT !.Description = newService.Description]
                          ELSE r : r \in tx.rows }],
                    existingServices, repositoryID, services, i + 1)
             ELSE IF ~MicroserviceUnique(tx.rows, repositoryID, newService.Name)
             THEN [tx EXCEPT !.err = "UNIQUE constraint failed: microservices"]
             ELSE ProcessNewServices(
                    [tx EXCEPT !.rows = @ \cup {[ID |-> tx.seq + 1,
                                                 RepositoryID |-> repositoryID,
                                                 Name |-> newService.Name,
                                                 Path |-> newService.Path,
                                                 Description |-> newService.Description]},
                               !.seq = @ + 1],
                    existingServices, repositoryID, services, i + 1)

\* the keys of the desired list (processedServices)
ProcessedServices_ByName(services) ==
    {services[i].Name : i \in 1..Len(services)}

ProcessedServices(services) ==
    {Key(services[i].Name, services[i].Path) : i \in 1..Len(services)}

\* `defer tx.Rollback()` taking effect on an error return: the tables are as
\* they were at Begin, whatever the statements run so far (partial) had done
Rollback_KeepsPartial(db, partial, err) == [partial EXCEPT !.err = err]

Rollback(db, partial, err) == [db EXCEPT !.err = err]

\* delete-all-then-insert, as MicroserviceModel.UpsertServices does
UpsertServices_DeleteInsert(db, repositoryID, services, fk) ==
    LET deleted == {r.ID : r \in {x \in db.microservices : x.RepositoryID = repositoryID}}
        tx == ProcessNewServices([rows |-> {r \in db.microservices : r.ID \notin deleted},
                                  seq |-> db.seq.microservices, err |-> ""],
                                 [k \in {} |-> 0], repositoryID, services, 1)
    IN  IF tx.err # ""
        THEN [db EXCEPT !.err = tx.err]
        ELSE [db EXCEPT
                !.err = "",
                !.microservices = tx.rows,
                !.seq = [@ EXCEPT !.microservices = tx.seq],
                !.deployments = IF fk THEN {d \in @ : d.ServiceID \notin deleted} ELSE @,
                !.actions = IF fk THEN {a \in @ : a.ServiceID \notin deleted} ELSE @]

\* The result of the call on tables db = [microservices, deployments, actions,
\* resources, seq, err]; fk: whether the connection that runs the transaction
\* enforces foreign keys (PRAGMA foreign_keys is set on one pooled connection).
UpsertServicesPreserveID(db, repositoryID, services, fk) ==
    LET existingServices == ExistingServices(db.microservices, repositoryID)
        tx == ProcessNewServices([rows |-> db.microservices,
                                  seq |-> db.seq.microservices, err |-> ""],
                                 existingServices, repositoryID, services, 1)
        deleted == {existingServices[k].ID :
                       k \in DOMAIN existingServices \ ProcessedServices(services)}
    IN  IF tx.err # ""
        THEN Rollback(db, [db EXCEPT !.microservices = tx.rows,
                                     !.seq = [@ EXCEPT !.microservices = tx.seq]], tx.err)
        ELSE [db EXCEPT
                !.err = "",
                !.microservices = {r \in tx.rows : r.ID \notin deleted},
                !.seq = [@ EXCEPT !.microservices = tx.seq],
                !.deployments = IF fk THEN {d \in @ : d.ServiceID \notin deleted} ELSE @,
                !.actions = IF fk THEN {a \in @ : a.ServiceID \notin deleted} ELSE @]

Tables ==
    [microservices |-> microservices, deployments |-> deployments,
     actions |-> actions, resources |-> resources, seq |-> seq, err |-> ""]

(***************************************************************************)
(* Workflow runs and ActionModel.UpsertActions.                            *)
(***************************************************************************)
sCiApi  == <<"c","i","-">> \o api
sDeploy == <<"d","e","p","l","o","y">>
sLint   == <<"l","i","n","t">>
sMain   == <<"m","a","i","n">>
sBuild  == <<"b","u","i","l","d">>

RunID == 7      \* the workflow run the remote reports

WorkflowRun(id, status, branch) == [ID |-> id, Status |-> status, Branch |-> branch]

Workflow(name, runs) == [Name |-> name, failed |-> FALSE, Runs |-> runs]

\* what ListWorkflows and GetWorkflowRuns answer
WorkflowVocab ==
    { [status |-> "error", workflows |-> <<>>],
      [status |-> "ok",
       workflows |-> << [Name |-> sDeploy, failed |-> TRUE, Runs |-> <<>>],
                        Workflow(sLint, << WorkflowRun(RunID, "completed", sMain) >>),
                        Workflow(sCiApi, << WorkflowRun(RunID, "completed", sMain) >>) >>] }

determineActionType_DeployFirst(workflowName) ==
    LET name == ToLower(workflowName)
    IN  IF Contains(name, sDeploy) \/ Contains(name, <<"c","d">>) THEN "deployment"
        ELSE IF Contains(name, sBuild) \/ Contains(name, <<"c","i">>) THEN "build"
        ELSE ""

determineActionType(workflowName) ==
    LET name == ToLower(workflowName)
    IN  IF Contains(name, sBuild) \/ Contains(name, <<"c","i">>) THEN "build"
        ELSE IF Contains(name, sDeploy) \/ Contains(name, <<"c","d">>) THEN "deployment"
        ELSE ""

\* "for _, row := range rows { if matches { return row.ID } }; return 0"
\* hits: the indices of the rows that match
FirstMatch(rows, hits) ==
    IF hits = {} THEN 0 ELSE rows[Min(hits)].ID

matchWorkflowToService(rows, repositoryID, workflowName, branch) ==
    LET services == OrderByName({r \in rows : r.RepositoryID = repositoryID})
        Matches(service) ==
            \/ Contains(ToLower(workflowName), ToLower(service.Name))
            \/ Contains(ToLower(branch), ToLower(service.Name))
    IN  FirstMatch(services, {i \in 1..Len(services) : Matches(services[i])})

matchWorkflowToResource(rows, repositoryID, workflowName) ==
    LET found == OrderByName({r \in rows : r.RepositoryID = repositoryID})
        Matches(resource) == Contains(ToLower(workflowName), ToLower(resource.Name))
    IN  FirstMatch(found, {i \in 1..Len(found) : Matches(found[i])})

\* the Action values syncWorkflowRuns collects from one workflow's runs
RECURSIVE RunActions(_, _, _, _)
RunActions(db, repo, workflow, i) ==
    IF i > Len(workflow.Runs) THEN <<>>
    ELSE LET run == workflow.Runs[i]
             actionType == determineActionType(workflow.Name)
             action == [RepositoryID |-> repo.ID,
                        ServiceID |-> IF repo.Type = "monorepo"
                                      THEN matchWorkflowToService(db.microservices, repo.ID,
                                                                  workflow.Name, run.Branch)
                                      ELSE 0,
                        ResourceID |-> IF repo.Type = "kubernetes"
                                       THEN matchWorkflowToResource(db.resources, repo.ID,
                                                                    workflow.Name)
                                       ELSE 0,
                        Type |-> actionType,
                        Status |-> run.Status,
                        WorkflowRunID |-> run.ID]
         IN  (IF actionType = "" THEN <<>> ELSE <<action>>)
             \o RunActions(db, repo, workflow, i + 1)

RECURSIVE WorkflowActions(_, _, _, _)
WorkflowActions(db, repo, workflows, i) ==
    IF i > Len(workflows) THEN <<>>
    ELSE (IF workflows[i].failed THEN <<>> ELSE RunActions(db, repo, workflows[i], 1))
         \o WorkflowActions(db, repo, workflows, i + 1)

\* INSERT OR REPLACE INTO actions (...) without an id: the table's only key is
\* its AUTOINCREMENT id, so no stored row conflicts and each value is inserted.
RECURSIVE UpsertActions(_, _, _)
UpsertActions(db, batch, i) ==
    IF i > Len(batch) THEN db
    ELSE UpsertActions(
            [db EXCEPT !.actions = @ \cup {[ID |-> db.seq.actions + 1,
                                            RepositoryID |-> batch[i].RepositoryID,
                                            ServiceID |-> batch[i].ServiceID,
                                            ResourceID |-> batch[i].ResourceID,
                                            Type |-> batch[i].Type,
                                            Status |-> batch[i].Status,
                                            WorkflowRunID |-> batch[i].WorkflowRunID]},
                       !.seq = [@ EXCEPT !.actions = @ + 1]],
            batch, i + 1)

syncWorkflowRuns(db, repo, remote) ==
    IF remote.status = "error" THEN db
    ELSE UpsertActions(db, WorkflowActions(db, repo, remote.workflows, 1), 1)

(***************************************************************************)
(* DeploymentModel on table deployments as runMigrations leaves it:        *)
(* UNIQUE(service_id, environment, region, namespace), foreign key to      *)
(* microservices.                                                          *)
(***************************************************************************)
SameTarget(a, b) ==
    /\ a.ServiceID = b.ServiceID
    /\ a.Environment = b.Environment
    /\ a.Region = b.Region
    /\ a.Namespace = b.Namespace

DeploymentUnique_Missing(rows, deployment) == TRUE

\* the UNIQUE constraint, checked by INSERT
DeploymentUnique(rows, deployment) ==
    ~ \E r \in rows : SameTarget(r, deployment)

Create(db, deployment, fk) ==
    IF ~DeploymentUnique(db.deployments, deployment)
    THEN [db EXCEPT !.err = "UNIQUE constraint failed: deployments"]
    ELSE IF fk /\ ~ \E m \in db.microservices : m.ID = deployment.ServiceID
    THEN [db EXCEPT !.err = "FOREIGN KEY constraint failed"]
    ELSE [db EXCEPT !.err = "",
                    !.deployments = @ \cup {[deployment EXCEPT !.ID = db.seq.deployments + 1]},
                    !.seq = [@ EXCEPT !.deployments = @ + 1]]

Update_KeepsPath(db, deployment) ==
    [db EXCEPT !.err = "",
               !.deployments = { IF r.ID = deployment.ID
                                 THEN [r EXCEPT !.CommitSHA = deployment.CommitSHA,
                                                !.Tag = deployment.Tag]
                                 ELSE r : r \in @ }]

\* UPDATE deployments SET commit_sha, tag, path WHERE id
\* (variant: the row is replaced, as INSERT OR REPLACE does, under a new id)
Update_Replace(db, deployment) ==
    [db EXCEPT !.err = "",
               !.deployments = {r \in @ : r.ID # deployment.ID}
                                  \cup {[deployment EXCEPT !.ID = db.seq.deployments + 1]},
               !.seq = [@ EXCEPT !.deployments = @ + 1]]

Update(db, deployment) ==
    [db EXCEPT !.err = "",
               !.deployments = { IF r.ID = deployment.ID
                                 THEN [r EXCEPT !.CommitSHA = deployment.CommitSHA,
                                                !.Tag = deployment.Tag,
                                                !.Path = deployment.Path]
                                 ELSE r : r \in @ }]

\* the SELECT of Upsert: the id of the stored row of this target, 0 for ErrNoRows
ExistingID(rows, deployment) ==
    LET found == {r.ID : r \in {x \in rows : SameTarget(x, deployment)}}
    IN  IF found = {} THEN 0 ELSE Min(found)

\* the rest of Upsert, once the SELECT has answered existingID
UpsertWrite(db, deployment, existingID, fk) ==
    IF existingID = 0 THEN Create(db, deployment, fk)
    ELSE Update(db, [deployment EXCEPT !.ID = existingID])

(***************************************************************************)
(* KubernetesResourceModel.UpsertResources and resource discovery.         *)
(***************************************************************************)
ResourceInfo(name, path, type) == [Name |-> name, Path |-> path, ResourceType |-> type]

resDeployment == ResourceInfo(api, sK8s \o <<"/","d">>, "Deployment")
resService    == ResourceInfo(api, sK8s \o <<"/","s">>, "Service")

\* what the listing of the kubernetes repository's root path yields
ListingVocab ==
    { [status |-> "error", resources |-> <<>>],
      [status |-> "ok", resources |-> << resDeployment >>],
      [status |-> "ok", resources |-> << resDeployment, resService >>] }

DiscoverKubernetesResourcesInPath(listing, rootPath) ==
    IF rootPath # <<>> /\ rootPath # <<".">>
    THEN IF listing.status = "error"
         THEN [err |-> "discoverResources", resources |-> <<>>]
         ELSE [err |-> "", resources |-> listing.resources]
    ELSE [err |-> "", resources |-> IF listing.status = "error" THEN <<>>
                                    ELSE listing.resources]

\* UNIQUE(repository_id, name, namespace); discovery leaves the namespace ""
RECURSIVE InsertResources(_, _, _, _)
InsertResources(tx, repositoryID, found, i) ==
    IF i > Len(found) THEN tx
    ELSE IF \E r \in tx.rows : r.RepositoryID = repositoryID /\ r.Name = found[i].Name
                               /\ r.Namespace = <<>>
    THEN [tx EXCEPT !.err = "UNIQUE constraint failed: kubernetes_resources"]
    ELSE InsertResources(
            [tx EXCEPT !.rows = @ \cup {[ID |-> tx.seq + 1,
                                         RepositoryID |-> repositoryID,
                                         Name |-> found[i].Name,
                                         Path |-> found[i].Path,
                                         ResourceType |-> found[i].ResourceType,
                                         Namespace |-> <<>>]},
                       !.seq = @ + 1],
            repositoryID, found, i + 1)

UpsertResources(db, repositoryID, found, fk) ==
    LET deleted == {r.ID : r \in {x \in db.resources : x.RepositoryID = repositoryID}}
        tx == InsertResources([rows |-> {r \in db.resources : r.ID \notin deleted},
                               seq |-> db.seq.resources, err |-> ""],
                              repositoryID, found, 1)
    IN  IF tx.err # ""
        THEN Rollback(db, [db EXCEPT !.resources = tx.rows,
                                     !.seq = [@ EXCEPT !.resources = tx.seq]], tx.err)
        ELSE [db EXCEPT !.err = "",
                        !.resources = tx.rows,
                        !.seq = [@ EXCEPT !.resources = tx.seq],
                        !.actions = IF fk THEN {a \in @ : a.ResourceID \notin deleted}
                                    ELSE @]

(***************************************************************************)
(* syncKubernetesRepo, per manifest: service match and commit resolution.  *)
(***************************************************************************)
HexDigits == {"0","1","2","3","4","5","6","7","8","9",
              "a","b","c","d","e","f","A","B","C","D","E","F"}

isHexString_LowerOnly(s) ==
    \A i \in 1..Len(s) : s[i] \in {"0","1","2","3","4","5","6","7","8","9",
                                   "a","b","c","d","e","f"}

isHexString(s) == \A i \in 1..Len(s) : s[i] \in HexDigits

ShaLen == 40    \* length of a full commit SHA

MatchService(allServices, kustomDeploy) ==
    LET Matches(service) ==
            \/ Contains(ToLower(service.Name), ToLower(kustomDeploy.ServiceName))
            \/ Contains(ToLower(kustomDeploy.ServiceName), ToLower(service.Name))
    IN  FirstMatch(allServices, {i \in 1..Len(allServices) : Matches(allServices[i])})

correlateTagWithCommit(db, repos, serviceID, tag, remote) ==
    IF ~ \E m \in db.microservices : m.ID = serviceID THEN <<>>
    ELSE LET service == CHOOSE m \in db.microservices : m.ID = serviceID IN
         IF repos[service.RepositoryID].Type # "monorepo" THEN <<>>
         ELSE CorrelateRemote(tag, remote)

DeploymentOf(db, repos, repo, serviceID, kustomDeploy, remote) ==
    LET correlated == correlateTagWithCommit(db, repos, serviceID, kustomDeploy.Tag, remote)
        commitSHA == IF Len(kustomDeploy.Tag) = ShaLen /\ isHexString(kustomDeploy.Tag)
                     THEN kustomDeploy.Tag
                     ELSE IF correlated = <<>> THEN kustomDeploy.CommitSHA
                     ELSE correlated
    IN  [ID |-> 0, ServiceID |-> serviceID, KubernetesRepoID |-> repo.ID,
         CommitSHA |-> commitSHA, Environment |-> kustomDeploy.Environment,
         Region |-> kustomDeploy.Region, Namespace |-> kustomDeploy.Namespace,
         Tag |-> kustomDeploy.Tag, Path |-> kustomDeploy.Path]

(***************************************************************************)
(* The sync service and the application handlers over the record store.    *)
(* A monorepo sync and a rediscovery are one step each; a kubernetes sync  *)
(* is split where it reads or writes the store, so that the scheduled and  *)
(* the manual caller interleave between statements.                        *)
(***************************************************************************)
sApiGw == api \o <<"-","g","w">>

ContentApiGwV3 == << Line(ldNone, kImages, <<>>, FALSE), Line(ldDash, kName, sApiGw, FALSE),
                     Line(ldIndent, kNewTag, v3, FALSE) >>

fApiV1 == RemoteFile(<<sServices, api, sOverlays, prd, us, nsa, sKustomization>>,
                     "ok", ContentApiV1, k8sCommit)
fApiV2 == RemoteFile(<<sServices, api, sOverlays, prd, us, nsa, sKustomization>>,
                     "ok", ContentApiV2, k8sCommit)
fWebV2 == RemoteFile(<<sServices, web, sOverlays, stg, eu, nsb, sKustomization>>,
                     "ok", ContentWebV2, k8sCommit)
fApiGwV3 == RemoteFile(<<sServices, sApiGw, sOverlays, prd, us, nsa, sKustomization>>,
                       "ok", ContentApiGwV3, k8sCommit)

\* the kustomization files one scan of the kubernetes repository finds
SyncFileLists == { <<fApiV1>>, <<fApiGwV3>>, <<fApiV2, fWebV2>> }

\* what the monorepo answers to ListCommits and ListTags during one correlation
SyncRemotes ==
    { [commitsErr |-> TRUE, commits |-> <<>>, tagsErr |-> TRUE, tags |-> <<>>],
      [commitsErr |-> FALSE,
       commits |-> << [SHA |-> CommitSha(1), Message |-> <<"s","h","i","p"," ","V","2">>] >>,
       tagsErr |-> FALSE, tags |-> <<>>] }

EmptyTables ==
    [microservices |-> {}, deployments |-> {}, actions |-> {}, resources |-> {},
     seq |-> [microservices |-> 0, deployments |-> 0, actions |-> 0, resources |-> 0],
     err |-> ""]

\* the store a run starts from: new, or as an earlier run's monorepo sync left
\* it (service api discovered, one build run recorded for it)
SyncedOnce ==
    LET dir == [status |-> "ok",
                entries |-> << DirEntry(sReadme, "file", ""), DirEntry(api, "dir", "d0") >>]
        remote == CHOOSE w \in WorkflowVocab : w.status = "ok"
        repo == Registered(<<>>)[MonoRepoID]
    IN  syncWorkflowRuns(
            UpsertServicesPreserveID(EmptyTables, repo.ID,
                                     DiscoverMicroservices(dir).services, TRUE),
            repo, remote)

Init ==
    /\ repositories \in {Registered(<<>>), Registered(api)}
    /\ \E db \in {EmptyTables, SyncedOnce} :
          /\ microservices = db.microservices
          /\ deployments = db.deployments
          /\ actions = db.actions
          /\ resources = db.resources
          /\ seq = db.seq
    /\ k8s = [p \in Callers |-> IdleCtx]
    /\ ops = 0
    /\ last = NoOp
    /\ fnIn = <<>>
    /\ fnOut = <<>>
    /\ fnPc = "idle"
    /\ sched = SchedIdle

Commit(db) ==
    /\ microservices' = db.microservices
    /\ deployments' = db.deployments
    /\ actions' = db.actions
    /\ resources' = db.resources
    /\ seq' = db.seq

\* the same reconciliation (same repository, same list) made the step before
Again(repositoryID, services) ==
    /\ last.kind \in {"syncMonorepo", "rediscover"}
    /\ last.err = ""
    /\ last.repo = repositoryID
    /\ last.services = services

\* Service.SyncRepository on the monorepo: syncMonorepo
SyncMonorepo(p, dir, remote, fk) ==
    LET repo == repositories[MonoRepoID]
        found == DiscoverMicroservices(dir)
        services == IF Len(found.services) = 0 /\ repo.ServiceName # <<>>
                       /\ repo.ServiceLocation # <<>>
                    THEN << ServiceInfo(repo.ServiceName, repo.ServiceLocation,
                                        "Service located") >>
                    ELSE found.services
        upserted == UpsertServicesPreserveID(Tables, repo.ID, services, fk)
    IN  /\ ops < MaxOps
        /\ ops' = ops + 1
        /\ IF found.err # ""
           THEN /\ last' = [kind |-> "syncMonorepo", caller |-> p, repo |-> repo.ID,
                            services |-> <<>>, err |-> found.err, again |-> FALSE]
                /\ UNCHANGED <<microservices, deployments, actions, resources, seq>>
           ELSE IF upserted.err # ""
           THEN /\ last' = [kind |-> "syncMonorepo", caller |-> p, repo |-> repo.ID,
                            services |-> services, err |-> upserted.err, again |-> FALSE]
                /\ UNCHANGED <<microservices, deployments, actions, resources, seq>>
           ELSE /\ last' = [kind |-> "syncMonorepo", caller |-> p, repo |-> repo.ID,
                            services |-> services, err |-> "",
                            again |-> Again(repo.ID, services)]
                /\ Commit(syncWorkflowRuns(upserted, repo, remote))
        /\ UNCHANGED <<repositories, k8s, fnVars, sched>>

\* App.RediscoverRepositoryServices on the monorepo
Rediscover(dir, fk) ==
    LET repo == repositories[MonoRepoID]
        found == DiscoverMicroservicesInPath(dir, repo.ServiceLocation)
        upserted == UpsertServicesPreserveID(Tables, repo.ID, found.services, fk)
    IN  /\ ops < MaxOps
        /\ ops' = ops + 1
        /\ IF found.err # ""
           THEN /\ last' = [kind |-> "rediscover", caller |-> "manual", repo |-> repo.ID,
                            services |-> <<>>, err |-> found.err, again |-> FALSE]
                /\ UNCHANGED <<microservices, deployments, actions, resources, seq>>
           ELSE IF upserted.err # ""
           THEN /\ last' = [kind |-> "rediscover", caller |-> "manual", repo |-> repo.ID,
                            services |-> found.services, err |-> upserted.err,
                            again |-> FALSE]
                /\ UNCHANGED <<microservices, deployments, actions, resources, seq>>
           ELSE /\ last' = [kind |-> "rediscover", caller |-> "manual", repo |-> repo.ID,
                            services |-> found.services, err |-> "",
                            again |-> Again(repo.ID, found.services)]
                /\ Commit(upserted)
        /\ UNCHANGED <<repositories, k8s, fnVars, sched>>

\* Service.SyncRepository on the kubernetes repository, up to the loop over
\* the scanned manifests: ScanKustomizationFiles, then microserviceModel.GetAll
K8sScan(p, files) ==
    /\ k8s[p].pc = "idle"
    /\ ops < MaxOps
    /\ ops' = ops + 1
    /\ k8s' = [k8s EXCEPT ![p] = [pc |-> "loop",
                                  queue |-> ScanKustomizationFiles(files),
                                  services |-> OrderByName(microservices),
                                  cur |-> <<>>, existingID |-> 0]]
    /\ last' = [kind |-> "scan", caller |-> p, repo |-> KubeRepoID]
    /\ UNCHANGED <<storeVars, fnVars, sched>>

\* a manifest no service matches: "continue"
K8sSkip(p) ==
    /\ k8s[p].pc = "loop"
    /\ k8s[p].queue # <<>>
    /\ MatchService(k8s[p].services, Head(k8s[p].queue)) = 0
    /\ k8s' = [k8s EXCEPT ![p].queue = Tail(@)]
    /\ last' = [kind |-> "skip", caller |-> p, repo |-> KubeRepoID]
    /\ UNCHANGED <<storeVars, ops, fnVars, sched>>

\* (variant: a manifest whose tag no commit was found for is passed over)
K8sSelect_NeedsCommit(p, remote) ==
    /\ k8s[p].pc = "loop"
    /\ k8s[p].queue # <<>>
    /\ LET kustomDeploy == Head(k8s[p].queue)
           serviceID == MatchService(k8s[p].services, kustomDeploy)
           correlated == correlateTagWithCommit(Tables, repositories, serviceID,
                                                kustomDeploy.Tag, remote)
           deployment == DeploymentOf(Tables, repositories, repositories[KubeRepoID],
                                      serviceID, kustomDeploy, remote)
       IN  /\ serviceID # 0
           /\ k8s' = IF correlated = <<>>
                     THEN [k8s EXCEPT ![p].queue = Tail(@)]
                     ELSE [k8s EXCEPT ![p].pc = "write",
                                      ![p].cur = deployment,
                                      ![p].existingID = ExistingID(deployments, deployment)]
    /\ last' = [kind |-> "select", caller |-> p, repo |-> KubeRepoID]
    /\ UNCHANGED <<storeVars, ops, fnVars, sched>>

\* a matched manifest: commit resolution, then the SELECT of Upsert
K8sSelect(p, remote) ==
    /\ k8s[p].pc = "loop"
    /\ k8s[p].queue # <<>>
    /\ LET kustomDeploy == Head(k8s[p].queue)
           serviceID == MatchService(k8s[p].services, kustomDeploy)
           deployment == DeploymentOf(Tables, repositories, repositories[KubeRepoID],
                                      serviceID, kustomDeploy, remote)
       IN  /\ serviceID # 0
           /\ k8s' = [k8s EXCEPT ![p].pc = "write",
                                 ![p].cur = deployment,
                                 ![p].existingID = ExistingID(deployments, deployment)]
    /\ last' = [kind |-> "select", caller |-> p, repo |-> KubeRepoID]
    /\ UNCHANGED <<storeVars, ops, fnVars, sched>>

\* the INSERT or UPDATE of Upsert; its error is only logged
K8sWrite(p, fk) ==
    /\ k8s[p].pc = "write"
    /\ LET deployment == k8s[p].cur
           written == UpsertWrite(Tables, deployment, k8s[p].existingID, fk)
           stored == {r \in deployments : SameTarget(r, deployment)}
       IN  /\ IF written.err = "" THEN Commit(written)
              ELSE UNCHANGED <<microservices, deployments, actions, resources, seq>>
           /\ last' = [kind |-> "upsert", caller |-> p, repo |-> KubeRepoID,
                       deployment |-> deployment, existingID |-> k8s[p].existingID,
                       err |-> written.err,
                       \* no other step since this upsert's SELECT
                       alone |-> (last.kind = "select" /\ last.caller = p),
                       \* the tags stored for the target before the write
                       tags |-> {r.Tag : r \in stored}]
    /\ k8s' = [k8s EXCEPT ![p].pc = "loop", ![p].queue = Tail(@),
                          ![p].cur = <<>>, ![p].existingID = 0]
    /\ UNCHANGED <<repositories, ops, fnVars, sched>>

\* after the loop: resource discovery, UpsertResources, syncWorkflowRuns
K8sFinish(p, listing, remote, fk) ==
    /\ k8s[p].pc = "loop"
    /\ k8s[p].queue = <<>>
    /\ LET repo == repositories[KubeRepoID]
           found == DiscoverKubernetesResourcesInPath(listing, repo.ServiceLocation)
           upserted == UpsertResources(Tables, repo.ID, found.resources, fk)
       IN  IF found.err # ""
           THEN /\ last' = [kind |-> "syncK8s", caller |-> p, repo |-> repo.ID,
                            err |-> found.err]
                /\ UNCHANGED <<microservices, deployments, actions, resources, seq>>
           ELSE IF upserted.err # ""
           THEN /\ last' = [kind |-> "syncK8s", caller |-> p, repo |-> repo.ID,
                            err |-> upserted.err]
                /\ UNCHANGED <<microservices, deployments, actions, resources, seq>>
           ELSE /\ last' = [kind |-> "syncK8s", caller |-> p, repo |-> repo.ID,
                            err |-> ""]
                /\ Commit(syncWorkflowRuns(upserted, repo, remote))
    /\ k8s' = [k8s EXCEPT ![p] = IdleCtx]
    /\ UNCHANGED <<repositories, ops, fnVars, sched>>

Next ==
    \/ \E p \in Callers, dir \in DirVocab, remote \in WorkflowVocab, fk \in BOOLEAN :
          SyncMonorepo(p, dir, remote, fk)
    \/ \E dir \in DirVocab, fk \in BOOLEAN : Rediscover(dir, fk)
    \/ \E p \in Callers, files \in SyncFileLists : K8sScan(p, files)
    \/ \E p \in Callers : K8sSkip(p)
    \/ \E p \in Callers, remote \in SyncRemotes : K8sSelect(p, remote)
    \/ \E p \in Callers, fk \in BOOLEAN : K8sWrite(p, fk)
    \/ \E p \in Callers, listing \in ListingVocab, remote \in WorkflowVocab, fk \in BOOLEAN :
          K8sFinish(p, listing, remote, fk)

Spec == Init /\ [][Next]_vars

(***************************************************************************)
(* Properties of the record store under Spec.                              *)
(***************************************************************************)
Reconciles == {"syncMonorepo", "rediscover"}

RowsOf(rows, repositoryID) == {r \in rows : r.RepositoryID = repositoryID}

Identities(rows, repositoryID) ==
    {<<r.ID, r.Name, r.Path>> : r \in RowsOf(rows, repositoryID)}

Pairs(services) == {<<services[i].Name, services[i].Path>> : i \in 1..Len(services)}

\* C1: when a reconciliation of a repository with some list is followed at once
\* by a reconciliation of the same repository with the same list, the second
\* one leaves the repository's rows (ids, names, paths) as the first left them.
C1_ReconcileTwice ==
    [][ ( /\ last.kind \in Reconciles
          /\ last'.kind \in Reconciles
          /\ last.err # "discover"
          /\ last'.err # "discover"
          /\ last'.repo = last.repo
          /\ last'.services = last.services )
        => Identities(microservices', last.repo) = Identities(microservices, last.repo)
      ]_vars

C1_Witness ==
    /\ last.kind \in Reconciles
    /\ last.again
    /\ Cardinality(RowsOf(microservices, last.repo)) = 2
    /\ Len(last.services) = 2

\* C2: a Deployment upsert for a target that already has a row, with nothing
\* else touching the store between its SELECT and its write, succeeds and
\* leaves exactly one row for the target, carrying the tag, commit SHA and
\* path of this upsert.
C2_UpsertTwice ==
    ( /\ last.kind = "upsert"
      /\ last.alone
      /\ last.tags # {} )
    => /\ last.err = ""
       /\ \E r \in deployments :
            /\ SameTarget(r, last.deployment)
            /\ r.Tag = last.deployment.Tag
            /\ r.CommitSHA = last.deployment.CommitSHA
            /\ r.Path = last.deployment.Path
            /\ \A o \in deployments : SameTarget(o, last.deployment) => o = r

C2_Witness ==
    /\ last.kind = "upsert"
    /\ last.alone
    /\ last.tags = {v1}
    /\ last.deployment.Tag = v3
    /\ \E r \in deployments : r.Tag = v3 /\ r.Path = fApiGwV3.path

\* C3: no two Deployment rows share (service, environment, region, namespace).
C3_TargetUnique ==
    \A a \in deployments : \A b \in deployments : SameTarget(a, b) => a = b

\* both callers ran the SELECT before either wrote; the second INSERT was refused
C3_Witness ==
    /\ last.kind = "upsert"
    /\ last.existingID = 0
    /\ last.err = "UNIQUE constraint failed: deployments"
    /\ \E r \in deployments : SameTarget(r, last.deployment)

\* C4: a repository has at most one Action row per workflow run id.
C4_OneRowPerRun ==
    \A a \in actions : \A b \in actions :
        (a.RepositoryID = b.RepositoryID /\ a.WorkflowRunID = b.WorkflowRunID) => a = b

\* C5: a reconciliation whose discovery did not fail succeeds, and afterwards
\* the repository's rows are exactly the (name, path) pairs of its list.
C5_RowsAreDiscovered ==
    (last.kind \in Reconciles /\ last.err # "discover")
    => /\ last.err = ""
       /\ {<<r.Name, r.Path>> : r \in RowsOf(microservices, last.repo)}
              = Pairs(last.services)

\* C6: a reconciliation keeps every stored row of the repository whose
\* (name, path) is in its list under the same id, name and path, and keeps the
\* Deployment and Action rows that reference it.
C6_IdentityPreserved ==
    [][ last'.kind \in Reconciles =>
          \A m \in RowsOf(microservices, last'.repo) :
              <<m.Name, m.Path>> \in Pairs(last'.services) =>
                  /\ \E n \in microservices' :
                        /\ n.ID = m.ID
                        /\ n.RepositoryID = m.RepositoryID
                        /\ n.Name = m.Name
                        /\ n.Path = m.Path
                  /\ \A d \in deployments : d.ServiceID = m.ID => d \in deployments'
                  /\ \A a \in actions : a.ServiceID = m.ID => a \in actions'
      ]_vars

\* a kept service, its description rewritten, with a Deployment and an older
\* Action still referencing it
C6_Witness ==
    /\ last.kind = "syncMonorepo"
    /\ last.err = ""
    /\ \E m \in microservices :
          /\ <<m.Name, m.Path>> \in Pairs(last.services)
          /\ m.Description = "d1"
          /\ \E d \in deployments : d.ServiceID = m.ID
          /\ \E a \in actions : a.ServiceID = m.ID /\ a.ID < seq.actions

(***************************************************************************)
(* Commit resolution of one matched manifest (part_007:201-214): the SHA   *)
(* the Deployment is given, and the remote calls made to find it.          *)
(***************************************************************************)
Rep(c, n) == [i \in 1..n |-> c]

\* tags an overlay may pin an image to: full SHAs in lower and in mixed case,
\* strings that are one character off being one, and a version tag
shaLower  == Rep("a", ShaLen - 1) \o <<"1">>
shaMixed  == Rep("A", ShaLen - 20) \o Rep("0", 19) \o <<"f">>
notHex    == Rep("a", ShaLen - 1) \o <<"g">>
shaShort  == Rep("a", ShaLen - 1)
shaLong   == Rep("a", ShaLen + 1)

ResolveTags == {shaLower, shaMixed, notHex, shaShort, shaLong, tagV2}

\* part_007:446-502: the remote calls one correlateTagWithCommit makes, in order
CorrelateCalls(tag, remote) ==
    IF remote.commitsErr THEN <<"ListCommits">>
    ELSE IF MatchCommits(remote.commits, 1, tag) # <<>> THEN <<"ListCommits">>
    ELSE <<"ListCommits", "ListTags">>

correlateCalls(db, repos, serviceID, tag, remote) ==
    IF ~ \E m \in db.microservices : m.ID = serviceID THEN <<>>
    ELSE LET service == CHOOSE m \in db.microservices : m.ID = serviceID IN
         IF repos[service.RepositoryID].Type # "monorepo" THEN <<>>
         ELSE CorrelateCalls(tag, remote)

\* part_007:201-214: correlation is entered only on the else branch
DeploymentCalls(db, repos, serviceID, kustomDeploy, remote) ==
    IF Len(kustomDeploy.Tag) = ShaLen /\ isHexString(kustomDeploy.Tag)
    THEN <<>>
    ELSE correlateCalls(db, repos, serviceID, kustomDeploy.Tag, remote)

\* the manifest of service api pinned to the given tag
Manifest(tag) ==
    [ServiceName |-> api, Environment |-> prd, Region |-> us, Namespace |-> nsa,
     Tag |-> tag, Path |-> <<sServices, api, sOverlays, prd, us, nsa, sKustomization>>,
     CommitSHA |-> k8sCommit]

GoneServiceID == 9   \* a Microservice id no stored row carries any more

InitResolve ==
    /\ StoreIdle
    /\ fnIn \in [tag : ResolveTags, remote : Remotes, serviceID : {1, GoneServiceID}]
    /\ fnOut = <<>>
    /\ fnPc = "ready"

Resolve ==
    /\ fnPc = "ready"
    /\ LET repos == Registered(<<>>) IN
       fnOut' = [deployment |-> DeploymentOf(SyncedOnce, repos, repos[KubeRepoID],
                                             fnIn.serviceID, Manifest(fnIn.tag), fnIn.remote),
                 calls |-> DeploymentCalls(SyncedOnce, repos, fnIn.serviceID,
                                           Manifest(fnIn.tag), fnIn.remote)]
    /\ fnPc' = "done"
    /\ UNCHANGED <<fnIn, storeVars, k8s, ops, last, sched>>

NextResolve == Resolve

SpecResolve == InitResolve /\ [][NextResolve]_vars

FortyHex(T) ==
    /\ Len(T) = 40
    /\ \A i \in 1..40 :
          \/ T[i] \in {"0","1","2","3","4","5","6","7","8","9"}
          \/ T[i] \in {"a","b","c","d","e","f"}
          \/ T[i] \in {"A","B","C","D","E","F"}

\* C11: for every tag of exactly 40 hexadecimal characters the Deployment of a
\* matched manifest carries the tag itself as commit SHA, and its resolution
\* makes neither a commit-listing nor a tag-listing call.
C11_ShaTagUsedDirectly ==
    (fnPc = "done" /\ FortyHex(fnIn.tag)) =>
        /\ fnOut.deployment.CommitSHA = fnIn.tag
        /\ fnOut.deployment.Tag = fnIn.tag
        /\ fnOut.calls = <<>>

\* an upper-case SHA tag was resolved although the monorepo lists a commit
C11_Witness ==
    /\ fnPc = "done"
    /\ fnIn.tag = shaMixed
    /\ fnIn.serviceID = 1
    /\ ~fnIn.remote.commitsErr /\ fnIn.remote.commits # <<>>
    /\ fnOut.deployment.CommitSHA = shaMixed
    /\ fnOut.calls = <<>>

(***************************************************************************)
(* Classification of workflows (part_007:338-350) and the Action rows one  *)
(* syncWorkflowRuns writes for a workflow (part_007:277-336).              *)
(***************************************************************************)
MaxRuns == 2

sFrontend == <<"f","r","o","n","t","e","n","d">>
sProd     == <<"p","r","o","d">>

\* workflow names: a lead and a rest, in either case
NameLeads == { <<>>, <<"c","i","-">>, <<"C","I","-">>, <<"c","d","-">>, <<"C","D"," ">> }
NameRests == { sBuild \o <<"-">> \o sFrontend, <<"B","u","i","l","d">>,
               sDeploy \o <<"-">> \o sProd, <<"D","E","P","L","O","Y">>,
               sLint, <<"L","i","n","t">>, sFrontend }

WorkflowNames == {lead \o rest : lead \in NameLeads, rest \in NameRests}

\* the first n runs the remote lists for a workflow, ids RunID, RunID+1, ...
RunsOf(n) == [i \in 1..n |-> WorkflowRun(RunID + i - 1, "completed", sMain)]

InitClassify ==
    /\ StoreIdle
    /\ fnIn \in [name : WorkflowNames, runs : 0..MaxRuns, repo : {MonoRepoID, KubeRepoID}]
    /\ fnOut = <<>>
    /\ fnPc = "ready"

\* one syncWorkflowRuns over a remote that lists the one workflow
Classify ==
    /\ fnPc = "ready"
    /\ LET remote == [status |-> "ok",
                      workflows |-> << Workflow(fnIn.name, RunsOf(fnIn.runs)) >>]
           db == syncWorkflowRuns(SyncedOnce, Registered(<<>>)[fnIn.repo], remote)
       IN  fnOut' = [type |-> determineActionType(fnIn.name),
                     written |-> db.actions \ SyncedOnce.actions]
    /\ fnPc' = "done"
    /\ UNCHANGED <<fnIn, storeVars, k8s, ops, last, sched>>

NextClassify == Classify

SpecClassify == InitClassify /\ [][NextClassify]_vars

Mentions(name, words) == \E w \in words : Contains(ToLower(name), w)

ClassOf(name) ==
    IF Mentions(name, {<<"b","u","i","l","d">>, <<"c","i">>}) THEN "build"
    ELSE IF Mentions(name, {<<"d","e","p","l","o","y">>, <<"c","d">>}) THEN "deployment"
    ELSE ""

\* C12: the class of a workflow is a function of its lower-cased name: build
\* if that contains "build" or "ci", else deployment if it contains "deploy"
\* or "cd", else neither; a workflow of neither class has no Action row
\* written for its runs, and every row written has type build or deployment.
C12_Classification ==
    fnPc = "done" =>
        /\ fnOut.type = ClassOf(fnIn.name)
        /\ \A other \in WorkflowNames :
              ToLower(other) = ToLower(fnIn.name) => determineActionType(other) = fnOut.type
        /\ fnOut.type = "" => fnOut.written = {}
        /\ \A a \in fnOut.written : a.Type \in {"build", "deployment"} /\ a.Type = fnOut.type
        /\ fnOut.type # "" => Cardinality(fnOut.written) = fnIn.runs

\* a name that mentions both ci and deploy, in upper case, was classified
\* build and both of its runs were written as build rows
C12_Witness ==
    /\ fnPc = "done"
    /\ fnIn.name = <<"C","I","-">> \o sDeploy \o <<"-">> \o sProd
    /\ fnIn.runs = 2
    /\ fnOut.type = "build"
    /\ Cardinality(fnOut.written) = 2
    /\ \A a \in fnOut.written : a.Type = "build"

(***************************************************************************)
(* The background loop (Service.Start, Service.Stop, Service.syncAll) and  *)
(* the manual App.SyncRepository.  Here one Service.SyncRepository is a    *)
(* call with an outcome, success or error; what it does to the tables is   *)
(* modelled by Spec above.  The ticker channel holds at most one tick.     *)
(***************************************************************************)
MaxPasses == 2      \* passes begun in one run of the application

\* `s.syncAll()` is a plain call: the loop is inside it until it returns
AfterSyncAllCall_Go(loop) == "select"

AfterSyncAllCall(loop) == "inPass"

\* `continue` after a failed repository: the range loop goes on to the next
NextRepo_ReturnOnError(i, ok, n) == IF ok THEN i + 1 ELSE n + 1

NextRepo(i, ok, n) == i + 1

\* RepositoryModel.GetAll: ORDER BY created_at DESC, or a query error
GetAll(repos, failed) ==
    IF failed THEN <<>>
    ELSE IF KubeRepoID \in DOMAIN repos /\ MonoRepoID \in DOMAIN repos
    THEN <<KubeRepoID, MonoRepoID>>
    ELSE <<>>

\* RepositoryModel.UpdateLastSync: last_sync_at = now
UpdateLastSync(repos, id) == [repos EXCEPT ![id].LastSyncAt = @ + 1]

Passes == DOMAIN sched.running

\* entry of syncAll, from the goroutine's first statement or from a tick
BeginPass(from, failed) ==
    /\ sched.begun < MaxPasses
    /\ LET id == sched.begun + 1
           pass == [list |-> GetAll(repositories, failed), i |-> 1, cur |-> 0,
                    attempted |-> <<>>, results |-> <<>>]
       IN  /\ sched' = [sched EXCEPT
                          !.pc = AfterSyncAllCall(sched.pc),
                          !.begun = id,
                          !.tick = IF from = "tick" THEN FALSE ELSE @,
                          !.running = [k \in Passes \cup {id} |->
                                          IF k = id THEN pass ELSE sched.running[k]]]
           /\ last' = [kind |-> "beginPass", from |-> from, pass |-> id,
                       cancelled |-> sched.cancelled]
    /\ UNCHANGED <<storeVars, k8s, ops, fnVars>>

Start ==
    /\ sched.pc = "notStarted"
    /\ sched' = [sched EXCEPT !.pc = "spawned"]
    /\ last' = [kind |-> "start"]
    /\ UNCHANGED <<storeVars, k8s, ops, fnVars>>

Stop ==
    /\ ~sched.cancelled
    /\ sched' = [sched EXCEPT !.cancelled = TRUE]
    /\ last' = [kind |-> "stop"]
    /\ UNCHANGED <<storeVars, k8s, ops, fnVars>>

\* the goroutine creates the ticker and calls syncAll without looking at ctx
InitialPass(failed) ==
    /\ sched.pc = "spawned"
    /\ BeginPass("initial", failed)

\* the ticker fires; a tick that finds the channel full is dropped
Tick ==
    /\ sched.pc \in {"inPass", "select"}
    /\ ~sched.tick
    /\ sched' = [sched EXCEPT !.tick = TRUE]
    /\ last' = [kind |-> "tick"]
    /\ UNCHANGED <<storeVars, k8s, ops, fnVars>>

\* select takes `case <-ticker.C`; with ctx.Done() ready as well the choice
\* between the two cases is the runtime's
TickPass(failed) ==
    /\ sched.pc = "select"
    /\ sched.tick
    /\ BeginPass("tick", failed)

\* select takes `case <-s.ctx.Done()`
Exit ==
    /\ sched.pc = "select"
    /\ sched.cancelled
    /\ sched' = [sched EXCEPT !.pc = "exited"]
    /\ last' = [kind |-> "exit"]
    /\ UNCHANGED <<storeVars, k8s, ops, fnVars>>

\* the range loop of syncAll reaches its next repository
SyncBegin(k) ==
    /\ k \in Passes
    /\ LET pass == sched.running[k] IN
       /\ pass.cur = 0
       /\ pass.i <= Len(pass.list)
       /\ sched' = [sched EXCEPT !.running[k].cur = pass.list[pass.i],
                                 !.running[k].attempted = Append(@, pass.list[pass.i])]
       /\ last' = [kind |-> "syncBegin", pass |-> k, repo |-> pass.list[pass.i]]
    /\ UNCHANGED <<storeVars, k8s, ops, fnVars>>

\* SyncRepository returns: an error is logged, a success stamps the repository
SyncEnd(k, ok) ==
    /\ k \in Passes
    /\ LET pass == sched.running[k] IN
       /\ pass.cur # 0
       /\ sched' = [sched EXCEPT !.running[k].cur = 0,
                                 !.running[k].i = NextRepo(pass.i, ok, Len(pass.list)),
                                 !.running[k].results = Append(@, ok)]
       /\ repositories' = IF ok THEN UpdateLastSync(repositories, pass.cur)
                          ELSE repositories
       /\ last' = [kind |-> "syncEnd", caller |-> "sched", repo |-> pass.cur, ok |-> ok,
                   before |-> repositories[pass.cur].LastSyncAt]
    /\ UNCHANGED <<microservices, deployments, actions, resources, seq, k8s, ops, fnVars>>

\* syncAll returns to the loop
EndPass(k) ==
    /\ k \in Passes
    /\ LET pass == sched.running[k] IN
       /\ pass.cur = 0
       /\ pass.i > Len(pass.list)
       /\ sched' = [sched EXCEPT
                      !.pc = IF @ = "inPass" THEN "select" ELSE @,
                      !.running = [j \in Passes \ {k} |-> sched.running[j]]]
       /\ last' = [kind |-> "endPass", pass |-> k, list |-> pass.list,
                   attempted |-> pass.attempted, results |-> pass.results]
    /\ UNCHANGED <<storeVars, k8s, ops, fnVars>>

\* App.SyncRepository: returns what Service.SyncRepository returns
ManualSync(id, ok) ==
    /\ id \in DOMAIN repositories
    /\ last' = [kind |-> "manualSync", caller |-> "manual", repo |-> id, ok |-> ok,
                before |-> repositories[id].LastSyncAt]
    /\ UNCHANGED <<storeVars, k8s, ops, fnVars, sched>>

InitSched ==
    /\ StoreIdle
    /\ fnIn = <<>>
    /\ fnOut = <<>>
    /\ fnPc = "idle"

NextSched ==
    \/ Start
    \/ Stop
    \/ \E failed \in BOOLEAN : InitialPass(failed)
    \/ Tick
    \/ \E failed \in BOOLEAN : TickPass(failed)
    \/ Exit
    \/ \E k \in 1..MaxPasses : SyncBegin(k)
    \/ \E k \in 1..MaxPasses, ok \in BOOLEAN : SyncEnd(k, ok)
    \/ \E k \in 1..MaxPasses : EndPass(k)
    \/ \E id \in {MonoRepoID, KubeRepoID}, ok \in BOOLEAN : ManualSync(id, ok)

SpecSched == InitSched /\ [][NextSched]_vars

\* C13: within one pass every repository the store returned is attempted
\* exactly once, in list order, whatever the outcome of the repositories
\* before it.
C13_EveryRepositoryAttempted ==
    /\ \A k \in Passes :
          LET pass == sched.running[k] IN
          /\ Len(pass.attempted) = (IF pass.cur # 0 THEN pass.i ELSE pass.i - 1)
          /\ pass.attempted = SubSeq(pass.list, 1, Len(pass.attempted))
    /\ last.kind = "endPass" => last.attempted = last.list

\* a pass over two repositories ended with both attempted although the sync
\* of the first one failed
C13_Witness ==
    /\ last.kind = "endPass"
    /\ Len(last.list) = 2
    /\ last.results = <<FALSE, TRUE>>
    /\ last.attempted = last.list

\* C14: the last-sync timestamp of a repository is written by a sync of that
\* repository, scheduled or manual, exactly when that sync returned success;
\* a sync that returned an error leaves it as it was.
C14_StampIffSuccess ==
    last.kind \in {"syncEnd", "manualSync"} =>
        (last.ok <=> repositories[last.repo].LastSyncAt # last.before)

\* C16: scheduled passes never overlap: no pass begins while one is in
\* progress, also when the ticker fires during it, and at most one
\* repository is being synced by the scheduler at any time.
C16_NoOverlap ==
    /\ [](Cardinality(Passes) <= 1)
    /\ [](Cardinality({k \in Passes : sched.running[k].cur # 0}) <= 1)
    /\ [][sched'.begun # sched.begun => Passes = {}]_vars

\* the ticker has fired while a repository of the running pass is being synced
C16_Witness ==
    /\ sched.tick
    /\ sched.pc = "inPass"
    /\ \E k \in Passes : sched.running[k].cur # 0

\* C17: once Stop has been called no scheduled pass begins, neither the
\* initial one nor one for a tick that is pending when the loop selects.
C17_NoPassAfterStop ==
    last.kind = "beginPass" => ~last.cancelled

\* the target a matched manifest names
TargetOf(serviceID, kustomDeploy) ==
    [ServiceID |-> serviceID, Environment |-> kustomDeploy.Environment,
     Region |-> kustomDeploy.Region, Namespace |-> kustomDeploy.Namespace]

\* C15: commit correlation never blocks the deployment upsert: the step the
\* loop takes on a manifest that matches a Microservice leads to the upsert of
\* that manifest's target, whether correlation found a commit, found none or
\* hit a store or remote error, and nothing but performing that upsert takes
\* the loop on from there.
C15_UpsertAlwaysPerformed ==
    [][\A p \in Callers :
          /\ ( /\ k8s[p].pc = "loop"
               /\ k8s[p].queue # <<>>
               /\ MatchService(k8s[p].services, Head(k8s[p].queue)) # 0
               /\ k8s'[p] # k8s[p] )
             => /\ k8s'[p].pc = "write"
                /\ SameTarget(k8s'[p].cur,
                              TargetOf(MatchService(k8s[p].services, Head(k8s[p].queue)),
                                       Head(k8s[p].queue)))
                /\ k8s'[p].cur.Tag = Head(k8s[p].queue).Tag
          /\ (k8s[p].pc = "write" /\ k8s'[p] # k8s[p])
             => /\ last'.kind = "upsert"
                /\ last'.caller = p
                /\ last'.deployment = k8s[p].cur
    ]_vars

\* an upsert was performed with the manifest's own commit as SHA, correlation
\* having returned nothing, for a service whose row is gone from the store
C15_Witness ==
    /\ last.kind = "upsert"
    /\ last.deployment.CommitSHA = k8sCommit
    /\ ~ \E s \in microservices : s.ID = last.deployment.ServiceID

(***************************************************************************)
(* The three bulk reconciliations as transactions in which a statement may *)
(* fail (part_003:176-243, kubernetes.go:141-176, part_006:196-247).       *)
(* failAt = k: the k-th Exec of the batch returns an error, the statements *)
(* before it having run; failAt one past the batch: a later statement or   *)
(* Commit fails; failAt = 0: no statement fails but by a constraint.       *)
(***************************************************************************)
MaxBatch == 2

FailingUpsertServices(db, repositoryID, services, fk, failAt) ==
    IF failAt \in 1..(Len(services) + 1)
    THEN LET tx == ProcessNewServices([rows |-> db.microservices,
                                       seq |-> db.seq.microservices, err |-> ""],
                                      ExistingServices(db.microservices, repositoryID),
                                      repositoryID, SubSeq(services, 1, failAt - 1), 1)
         IN  Rollback(db, [db EXCEPT !.microservices = tx.rows,
                                     !.seq = [@ EXCEPT !.microservices = tx.seq]],
                      IF tx.err # "" THEN tx.err ELSE "database error")
    ELSE UpsertServicesPreserveID(db, repositoryID, services, fk)

FailingUpsertResources(db, repositoryID, found, fk, failAt) ==
    IF failAt \in 1..(Len(found) + 1)
    THEN LET tx == InsertResources([rows |-> {r \in db.resources :
                                                 r.RepositoryID # repositoryID},
                                    seq |-> db.seq.resources, err |-> ""],
                                   repositoryID, SubSeq(found, 1, failAt - 1), 1)
         IN  Rollback(db, [db EXCEPT !.resources = tx.rows,
                                     !.seq = [@ EXCEPT !.resources = tx.seq]],
                      IF tx.err # "" THEN tx.err ELSE "database error")
    ELSE UpsertResources(db, repositoryID, found, fk)

FailingUpsertActions(db, batch, failAt) ==
    IF Len(batch) = 0 THEN [db EXCEPT !.err = ""]
    ELSE IF failAt \in 1..(Len(batch) + 1)
    THEN Rollback(db, UpsertActions(db, SubSeq(batch, 1, failAt - 1), 1),
                  "failed to upsert action")
    ELSE [UpsertActions(db, batch, 1) EXCEPT !.err = ""]

svcA        == ServiceInfo(<<"a">>, sServices \o <<"/","a">>, "d0")
svcApi      == ServiceInfo(api, sServices \o <<"/">> \o api, "d1")
svcApiMoved == ServiceInfo(api, sApps \o <<"/">> \o api, "d0")
svcWeb      == ServiceInfo(web, sServices \o <<"/">> \o web, "d0")

\* discovered lists: GitHub lists a directory by name
ServiceBatches ==
    {b \in SeqsUpTo({svcA, svcApi, svcApiMoved, svcWeb}, MaxBatch) :
        \A i \in 1..Len(b), j \in 1..Len(b) : i < j => Less(b[i].Name, b[j].Name)}

resWeb == ResourceInfo(web, sK8s \o <<"/","w">>, "Deployment")

ResourceBatches == SeqsUpTo({resDeployment, resService, resWeb}, MaxBatch)

\* the runs of workflow ci-api as syncWorkflowRuns hands them to UpsertActions
ActionBatch(db, n) ==
    WorkflowActions(db, Registered(<<>>)[MonoRepoID], << Workflow(sCiApi, RunsOf(n)) >>, 1)

\* stores: new; after a monorepo sync; after a kubernetes sync as well
BulkStores ==
    { EmptyTables, SyncedOnce,
      UpsertResources(SyncedOnce, KubeRepoID, <<resDeployment>>, TRUE) }

InitBulk ==
    /\ StoreIdle
    /\ fnIn \in [op : {"microservices"}, db : BulkStores, batch : ServiceBatches,
                 failAt : 0..(MaxBatch + 1), fk : BOOLEAN]
            \cup [op : {"resources"}, db : BulkStores, batch : ResourceBatches,
                  failAt : 0..(MaxBatch + 1), fk : BOOLEAN]
            \cup [op : {"actions"}, db : BulkStores, batch : 0..MaxBatch,
                  failAt : 0..(MaxBatch + 1), fk : BOOLEAN]
    /\ fnOut = <<>>
    /\ fnPc = "ready"

ReconcileServices ==
    /\ fnPc = "ready"
    /\ fnIn.op = "microservices"
    /\ fnOut' = FailingUpsertServices(fnIn.db, MonoRepoID, fnIn.batch, fnIn.fk, fnIn.failAt)
    /\ fnPc' = "done"
    /\ UNCHANGED <<fnIn, storeVars, k8s, ops, last, sched>>

ReplaceResources ==
    /\ fnPc = "ready"
    /\ fnIn.op = "resources"
    /\ fnOut' = FailingUpsertResources(fnIn.db, KubeRepoID, fnIn.batch, fnIn.fk, fnIn.failAt)
    /\ fnPc' = "done"
    /\ UNCHANGED <<fnIn, storeVars, k8s, ops, last, sched>>

UpsertActionBatch ==
    /\ fnPc = "ready"
    /\ fnIn.op = "actions"
    /\ fnOut' = FailingUpsertActions(fnIn.db, ActionBatch(fnIn.db, fnIn.batch), fnIn.failAt)
    /\ fnPc' = "done"
    /\ UNCHANGED <<fnIn, storeVars, k8s, ops, last, sched>>

NextBulk == ReconcileServices \/ ReplaceResources \/ UpsertActionBatch

SpecBulk == InitBulk /\ [][NextBulk]_vars

\* C18: each bulk reconciliation is atomic: when a statement of the batch has
\* failed, the rows of its entity type are exactly those stored before the
\* operation started.
C18_BulkAtomic ==
    (fnPc = "done" /\ fnOut.err # "") =>
        /\ fnIn.op = "microservices" => fnOut.microservices = fnIn.db.microservices
        /\ fnIn.op = "resources" => fnOut.resources = fnIn.db.resources
        /\ fnIn.op = "actions" => fnOut.actions = fnIn.db.actions

\* the second statement of a two-element batch of services failed after the
\* first had inserted a row, and table microservices is as it was
C18_Witness ==
    /\ fnPc = "done"
    /\ fnOut.err # ""
    /\ fnIn.op = "microservices"
    /\ fnIn.failAt = 2
    /\ fnIn.batch = <<svcA, svcWeb>>
    /\ fnIn.db.microservices # {}
    /\ fnOut.microservices = fnIn.db.microservices

(***************************************************************************)
(* Service discovery against every kind of answer of the content listing,  *)
(* and what syncMonorepo then does to table microservices                  *)
(* (client.go:93-115, part_007:119-157).                                   *)
(***************************************************************************)
MaxEntries == 2

DirAnswers ==
    { [status |-> st, entries |-> <<>>] :
        st \in {"error", "notfound", "forbidden", "servererror"} }
    \cup
    { [status |-> "ok", entries |-> e] :
        e \in SeqsUpTo({ DirEntry(sReadme, "file", ""), DirEntry(api, "dir", "d1"),
                         DirEntry(web, "dir", "d0") }, MaxEntries) }

\* part_007:119-157: discovery, the configured service as fallback, the upsert
syncMonorepoServices(db, repo, dir, fk) ==
    LET found == DiscoverMicroservices(dir)
        services == IF Len(found.services) = 0 /\ repo.ServiceName # <<>>
                       /\ repo.ServiceLocation # <<>>
                    THEN << ServiceInfo(repo.ServiceName, repo.ServiceLocation,
                                        "Service located") >>
                    ELSE found.services
    IN  IF found.err # "" THEN [db EXCEPT !.err = "failed to discover microservices"]
        ELSE UpsertServicesPreserveID(db, repo.ID, services, fk)

InitDiscover ==
    /\ StoreIdle
    /\ fnIn \in [dir : DirAnswers, db : {EmptyTables, SyncedOnce},
                 serviceName : {<<>>, web}, fk : BOOLEAN]
    /\ fnOut = <<>>
    /\ fnPc = "ready"

Discover ==
    /\ fnPc = "ready"
    /\ fnOut' = [found |-> DiscoverMicroservices(fnIn.dir),
                 db |-> syncMonorepoServices(fnIn.db, Registered(fnIn.serviceName)[MonoRepoID],
                                             fnIn.dir, fnIn.fk)]
    /\ fnPc' = "done"
    /\ UNCHANGED <<fnIn, storeVars, k8s, ops, last, sched>>

NextDiscover == Discover

SpecDiscover == InitDiscover /\ [][NextDiscover]_vars

\* C19: discovery yields an empty list without error only for a
\* directory-not-found answer; on any other remote failure of the listing
\* (5xx, permission, network) it returns an error, the monorepo sync fails
\* and the stored Microservice rows and their dependants stay as they were.
C19_OnlyNotFoundIsEmpty ==
    fnPc = "done" =>
        /\ (fnIn.dir.status # "ok" /\ fnOut.found.err = "") => fnIn.dir.status = "notfound"
        /\ fnIn.dir.status \in {"forbidden", "servererror", "error"} =>
              /\ fnOut.found.err # ""
              /\ fnOut.db.err # ""
              /\ fnOut.db.microservices = fnIn.db.microservices
              /\ fnOut.db.deployments = fnIn.db.deployments
              /\ fnOut.db.actions = fnIn.db.actions

(***************************************************************************)
(* The Resolve step of SyncRepository: parseGitHubURL on the repository's  *)
(* URL (part_007:79-98, 393-416), with url.Parse computed on the text.     *)
(***************************************************************************)
Index(s, c) == IF \E i \in 1..Len(s) : s[i] = c
               THEN Min({i \in 1..Len(s) : s[i] = c}) ELSE 0

LastIndex(s, c) == IF \E i \in 1..Len(s) : s[i] = c
                   THEN CHOOSE i \in 1..Len(s) : s[i] = c /\ \A j \in (i+1)..Len(s) : s[j] # c
                   ELSE 0

IsLetter(c) == \E i \in 1..Len(UpperCase) : c = UpperCase[i] \/ c = LowerCase[i]

IsDigit(c) == c \in {"0","1","2","3","4","5","6","7","8","9"}

\* net/url getScheme: letters, then letters, digits, + - . up to the first ':';
\* any other character before a ':' means there is no scheme
getScheme(rawURL) ==
    LET notScheme == {i \in 1..Len(rawURL) :
                         ~ \/ IsLetter(rawURL[i])
                           \/ (i > 1 /\ (IsDigit(rawURL[i]) \/ rawURL[i] \in {"+", "-", "."}))}
        stop == IF notScheme = {} THEN Len(rawURL) + 1 ELSE Min(notScheme)
    IN  IF stop <= Len(rawURL) /\ rawURL[stop] = ":"
        THEN IF stop = 1
             THEN [err |-> "missing protocol scheme", scheme |-> <<>>, rest |-> <<>>]
             ELSE [err |-> "", scheme |-> ToLower(SubSeq(rawURL, 1, stop - 1)),
                   rest |-> SubSeq(rawURL, stop + 1, Len(rawURL))]
        ELSE [err |-> "", scheme |-> <<>>, rest |-> rawURL]

\* net/url parseHost, validOptionalPort: what follows a ':' must be digits
validOptionalPort(host) ==
    LET colon == Index(host, ":")
    IN  colon = 0 \/ \A i \in (colon + 1)..Len(host) : IsDigit(host[i])

\* net/url Parse for texts without query, fragment or escapes: Host and Path
Parse(rawURL) ==
    LET g == getScheme(rawURL)
        rest == g.rest
        NoHost(path) == [err |-> "", Scheme |-> g.scheme, Host |-> <<>>, Path |-> path]
    IN  IF g.err # "" THEN [err |-> g.err, Scheme |-> <<>>, Host |-> <<>>, Path |-> <<>>]
        ELSE IF ~HasPrefix(rest, <<"/">>) /\ g.scheme # <<>>
        THEN NoHost(<<>>)                       \* opaque
        ELSE IF ~HasPrefix(rest, <<"/">>) /\ Contains(Split(rest, "/")[1], <<":">>)
        THEN [err |-> "first path segment in URL cannot contain colon",
              Scheme |-> <<>>, Host |-> <<>>, Path |-> <<>>]
        ELSE IF HasPrefix(rest, <<"/","/">>)
        THEN LET after == SubSeq(rest, 3, Len(rest))
                 slash == Index(after, "/")
                 authority == IF slash = 0 THEN after ELSE SubSeq(after, 1, slash - 1)
                 path == IF slash = 0 THEN <<>> ELSE SubSeq(after, slash, Len(after))
                 at == LastIndex(authority, "@")
                 host == SubSeq(authority, at + 1, Len(authority))
             IN  IF ~validOptionalPort(host)
                 THEN [err |-> "invalid port", Scheme |-> <<>>, Host |-> <<>>, Path |-> <<>>]
                 ELSE [err |-> "", Scheme |-> g.scheme, Host |-> host, Path |-> path]
        ELSE NoHost(rest)

sGithubCom == <<"g","i","t","h","u","b",".","c","o","m">>
sDotGit    == <<".","g","i","t">>

parseGitHubURL(repoURL) ==
    LET u == Parse(repoURL)
        parts == Split(TrimSuffix(TrimPrefix(u.Path, <<"/">>), sDotGit), "/")
    IN  IF u.err # "" THEN [err |-> u.err, owner |-> <<>>, repo |-> <<>>]
        ELSE IF u.Host # sGithubCom
        THEN [err |-> "only HTTPS GitHub URLs are supported", owner |-> <<>>, repo |-> <<>>]
        ELSE IF Len(parts) # 2
        THEN [err |-> "invalid repository path", owner |-> <<>>, repo |-> <<>>]
        ELSE [err |-> "", owner |-> parts[1], repo |-> parts[2]]

\* SyncRepository up to the switch on the repository type: whether the sync
\* of the repository (remote calls, store writes) is entered
ResolveStep(repoURL) ==
    LET parsed == parseGitHubURL(repoURL)
    IN  [err |-> IF parsed.err # "" THEN "invalid repository URL" ELSE "",
         owner |-> parsed.owner, repo |-> parsed.repo, entered |-> parsed.err = ""]

\* repository URLs: a lead, a host and a path, and the scp-like SSH form
sHttps == <<"h","t","t","p","s",":","/","/">>
sO     == <<"o">>
sN     == <<"n">>

UrlLeads == { sHttps, <<"h","t","t","p",":","/","/">>,
              <<"s","s","h",":","/","/","g","i","t","@">>, <<>> }
UrlHosts == { sGithubCom, <<"g","h","e",".","i","o">>, <<"w","w","w",".">> \o sGithubCom }
UrlPaths == { <<"/">> \o sO \o <<"/">> \o sN,
              <<"/">> \o sO \o <<"/">> \o sN \o sDotGit,
              <<"/">> \o sO,
              <<"/">> \o sO \o <<"/">> \o sN \o <<"/","x">>,
              <<"/">> \o sO \o <<"/">> \o sN \o <<"/">> }

RepoURLs ==
    {lead \o host \o path : lead \in UrlLeads, host \in UrlHosts, path \in UrlPaths}
    \cup { <<"g","i","t","@">> \o sGithubCom \o <<":">> \o sO \o <<"/">> \o sN \o sDotGit,
           <<"s","s","h",":","/","/","g","i","t","@">> \o sGithubCom \o <<":">> \o sO \o <<"/">>
               \o sN \o sDotGit }

InitUrl ==
    /\ StoreIdle
    /\ fnIn \in [url : RepoURLs]
    /\ fnOut = <<>>
    /\ fnPc = "ready"

ResolveUrl ==
    /\ fnPc = "ready"
    /\ fnOut' = ResolveStep(fnIn.url)
    /\ fnPc' = "done"
    /\ UNCHANGED <<fnIn, storeVars, k8s, ops, last, sched>>

NextUrl == ResolveUrl

SpecUrl == InitUrl /\ [][NextUrl]_vars

\* the URLs of the form https://<host>/<owner>/<name>, with or without .git
HttpsForm ==
    {sHttps \o host \o <<"/">> \o sO \o <<"/">> \o sN \o git :
        host \in UrlHosts, git \in {<<>>, sDotGit}}

\* C20: the Resolve step accepts exactly the HTTPS form: it resolves owner
\* and name for every URL https://<host>/<owner>/<name>, with or without a
\* trailing .git, and for a URL of any other scheme or shape it returns an
\* error and the sync of the repository is not entered.
C20_ExactlyHttpsForm ==
    fnPc = "done" =>
        /\ fnIn.url \in HttpsForm =>
              fnOut.err = "" /\ fnOut.owner = sO /\ fnOut.repo = sN
        /\ fnIn.url \notin HttpsForm => fnOut.err # "" /\ ~fnOut.entered

(***************************************************************************)
(* The scan of a checked-out kubernetes repository (scanner.go:29-127):    *)
(* filepath.WalkDir under <repoPath>/services, parseKustomizationFile on   *)
(* every kustomization.yaml, in lexical order of the paths.                *)
(***************************************************************************)
sRepoPath == <<"r","e","p","o">>

Image(name, newName, newTag) == [Name |-> name, NewName |-> newName, NewTag |-> newTag]

\* what yaml.Unmarshal makes of a file: an error, or its images
Yaml(ok, images) == [ok |-> ok, Images |-> images]

YamlVocab == { Yaml(FALSE, <<>>), Yaml(TRUE, <<>>), Yaml(TRUE, << Image(api, <<>>, v1) >>),
               Yaml(TRUE, << Image(regWeb, <<>>, <<>>), Image(<<>>, regWeb, v2) >>) }

LocalFile(segs, readable, yaml) == [segs |-> segs, readable |-> readable, yaml |-> yaml]

LocalVocab ==
    {LocalFile(sg, TRUE, y) : sg \in SegVocab, y \in YamlVocab}
    \cup {LocalFile(sg, FALSE, Yaml(FALSE, <<>>)) : sg \in SegVocab}

\* lexical order of two paths, segment by segment
RECURSIVE WalkBefore(_, _)
WalkBefore(a, b) ==
    IF b = <<>> THEN FALSE
    ELSE IF a = <<>> THEN TRUE
    ELSE IF a[1] = b[1] THEN WalkBefore(Tail(a), Tail(b))
    ELSE Less(a[1], b[1])

\* the kustomization.yaml files of one checkout, in the order WalkDir visits them
LocalTrees ==
    {t \in SeqsUpTo(LocalVocab, MaxFiles) :
        \A i \in 1..Len(t), j \in 1..Len(t) : i < j => WalkBefore(t[i].segs, t[j].segs)}

\* scanner.go:65-127; deployment <<>> is the nil result
parseKustomizationFile(file, repositoryID) ==
    LET filePath == <<sRepoPath>> \o file.segs
        pathParts == SubSeq(filePath, 1, Len(filePath) - 1)       \* filepath.Dir
        at == {i \in 1..Len(pathParts) : pathParts[i] = sServices /\ i + 5 <= Len(pathParts)}
        hits == {i \in 1..Len(file.yaml.Images) :
                    \/ Contains(file.yaml.Images[i].Name, pathParts[Min(at) + 1])
                    \/ Contains(file.yaml.Images[i].NewName, pathParts[Min(at) + 1])}
        imageTag == IF hits = {} THEN <<>> ELSE file.yaml.Images[Min(hits)].NewTag
    IN  IF ~file.readable THEN [err |-> "failed to read file", deployment |-> <<>>]
        ELSE IF ~file.yaml.ok THEN [err |-> "failed to parse YAML", deployment |-> <<>>]
        ELSE IF Len(file.yaml.Images) = 0 THEN [err |-> "", deployment |-> <<>>]
        ELSE IF Len(pathParts) < 6
        THEN [err |-> "invalid path structure", deployment |-> <<>>]
        ELSE IF at = {} \/ \E k \in {1, 3, 4, 5} : pathParts[Min(at) + k] = <<>>
        THEN [err |-> "could not extract service info from path", deployment |-> <<>>]
        ELSE IF imageTag = <<>> THEN [err |-> "", deployment |-> <<>>]
        ELSE [err |-> "",
              deployment |-> << [KubernetesRepoID |-> repositoryID,
                                 Environment |-> pathParts[Min(at) + 3],
                                 Region |-> pathParts[Min(at) + 4],
                                 Namespace |-> pathParts[Min(at) + 5],
                                 Tag |-> imageTag, Path |-> filePath,
                                 CommitSHA |-> <<>>] >>]

\* scanner.go:37-60: the walk stops at the first callback error and the scan
\* returns that error without deployments
RECURSIVE ScanRepository(_, _, _, _)
ScanRepository(tree, repositoryID, i, found) ==
    IF i > Len(tree) THEN [err |-> "", deployments |-> found]
    ELSE LET parsed == parseKustomizationFile(tree[i], repositoryID) IN
         IF parsed.err # ""
         THEN [err |-> "failed to scan kubernetes repository", deployments |-> <<>>]
         ELSE ScanRepository(tree, repositoryID, i + 1, found \o parsed.deployment)

InitWalk ==
    /\ StoreIdle
    /\ fnIn \in [tree : LocalTrees]
    /\ fnOut = <<>>
    /\ fnPc = "ready"

Walk ==
    /\ fnPc = "ready"
    /\ fnOut' = ScanRepository(fnIn.tree, KubeRepoID, 1, <<>>)
    /\ fnPc' = "done"
    /\ UNCHANGED <<fnIn, storeVars, k8s, ops, last, sched>>

NextWalk == Walk

SpecWalk == InitWalk /\ [][NextWalk]_vars

\* a manifest at an overlay path, readable, whose YAML pins an image of its
\* service to a tag
WellFormed(file) ==
    /\ IsOverlayPath(file.segs)
    /\ file.readable
    /\ file.yaml.ok
    /\ \E i \in 1..Len(file.yaml.Images) :
          /\ Contains(file.yaml.Images[i].Name, file.segs[2]) \/ Contains(file.yaml.Images[i].NewName, file.segs[2])
          /\ file.yaml.Images[i].NewTag # <<>>

\* C21: a manifest with a malformed path or unparseable content causes only
\* that file to be skipped: the scan does not fail, and every other manifest
\* of the scan still yields its deployment.
C21_OnlyTheFileIsSkipped ==
    fnPc = "done" =>
        /\ fnOut.err = ""
        /\ \A i \in 1..Len(fnIn.tree) :
              WellFormed(fnIn.tree[i]) =>
                 \E j \in 1..Len(fnOut.deployments) :
                    fnOut.deployments[j].Path = <<sRepoPath>> \o fnIn.tree[i].segs

\* the same statement for the scan the sync service runs over the remote
\* repository (Client.ScanKustomizationFiles), where it holds
ClientScanSkipsOnlyTheFile ==
    fnPc = "done" =>
        \A i \in 1..Len(fnIn.files) :
            LET f == fnIn.files[i] IN
            (IsOverlayPath(f.segs) /\ f.fetch = "ok"
             /\ extractImageTagFromKustomization(TextOf(f.content), f.segs[2]) # <<>>)
               => DeploymentsOf(f.path) # {}

(***************************************************************************)
(* One pass of syncAll with the context of its remote calls                *)
(* (part_007:39-77, 100-117, 119-299).  NewService makes one cancellable   *)
(* context, Stop cancels it, and every call to GitHub is made with it      *)
(* (s.ctx at 125, 173, 248, 280): a request made with a cancelled context  *)
(* returns the context's error instead of the remote answer.               *)
(***************************************************************************)
\* the remote calls one SyncRepository makes, in order
SyncCalls(id) ==
    IF id = MonoRepoID THEN <<"DiscoverMicroservices", "ListWorkflows">>
    ELSE <<"ScanKustomizationFiles", "DiscoverKubernetesResourcesInPath", "ListWorkflows">>

\* the store write that follows a successful call
WriteAfter(call) ==
    CASE call = "DiscoverMicroservices" -> "UpsertServicesPreserveID"
      [] call = "ScanKustomizationFiles" -> "Deployment.Upsert"
      [] call = "DiscoverKubernetesResourcesInPath" -> "UpsertResources"
      [] call = "ListWorkflows" -> "UpsertActions"

\* a failure of these calls is returned by the sync; of the others it is logged
ReturnsError(call) == call \in {"DiscoverMicroservices", "DiscoverKubernetesResourcesInPath"}

PassList == GetAll(Registered(api), FALSE)

RemoteAnswers == [{<<id, c>> : id \in {MonoRepoID, KubeRepoID}, c \in 1..3} -> {"ok", "err"}]

\* github.Client.Do with the service's context
Do(cancelled, answer) == IF cancelled THEN "context canceled" ELSE answer

Event(repo, what, result) == [repo |-> repo, what |-> what, result |-> result]

PassStart == [i |-> 1, c |-> 1, cancelled |-> FALSE, trace |-> <<>>]

\* the pass after the remote call it is at has returned `result`
AfterCall(st, result) ==
    LET id == PassList[st.i]
        call == SyncCalls(id)[st.c]
        called == Append(st.trace, Event(id, call, result))
        written == IF result = "ok" THEN Append(called, Event(id, WriteAfter(call), "written"))
                   ELSE called
        stamped == Append(written, Event(id, "UpdateLastSync", "written"))
    IN  IF result # "ok" /\ ReturnsError(call)
        THEN [st EXCEPT !.i = NextRepo(st.i, FALSE, Len(PassList)), !.c = 1, !.trace = written]
        ELSE IF st.c = Len(SyncCalls(id))
        THEN [st EXCEPT !.i = NextRepo(st.i, TRUE, Len(PassList)), !.c = 1, !.trace = stamped]
        ELSE [st EXCEPT !.c = st.c + 1, !.trace = written]

InFlight(st) == st.i <= Len(PassList)

\* the pass run to its end without a Stop
RECURSIVE Uninterrupted(_, _)
Uninterrupted(answers, st) ==
    IF ~InFlight(st) THEN st.trace
    ELSE Uninterrupted(answers, AfterCall(st, Do(FALSE, answers[<<PassList[st.i], st.c>>])))

InitCancel ==
    /\ StoreIdle
    /\ fnIn \in [answers : RemoteAnswers]
    /\ fnOut = PassStart
    /\ fnPc = "inPass"

RemoteCall ==
    /\ fnPc = "inPass"
    /\ InFlight(fnOut)
    /\ fnOut' = AfterCall(fnOut, Do(fnOut.cancelled, fnIn.answers[<<PassList[fnOut.i], fnOut.c>>]))
    /\ UNCHANGED <<fnIn, fnPc, storeVars, k8s, ops, last, sched>>

\* Service.Stop while the pass is in flight
StopInFlight ==
    /\ fnPc = "inPass"
    /\ InFlight(fnOut)
    /\ ~fnOut.cancelled
    /\ fnOut' = [fnOut EXCEPT !.cancelled = TRUE]
    /\ UNCHANGED <<fnIn, fnPc, storeVars, k8s, ops, last, sched>>

PassReturns ==
    /\ fnPc = "inPass"
    /\ ~InFlight(fnOut)
    /\ fnPc' = "done"
    /\ UNCHANGED <<fnIn, fnOut, storeVars, k8s, ops, last, sched>>

NextCancel == RemoteCall \/ StopInFlight \/ PassReturns

SpecCancel == InitCancel /\ [][NextCancel]_vars

\* C22: a Stop issued while a pass is in flight does not interrupt it: the
\* repository being synced and the repositories after it complete with the
\* same remote results and the same store writes as without the Stop.
C22_StopDoesNotInterrupt ==
    fnPc = "done" => fnOut.trace = Uninterrupted(fnIn.answers, PassStart)

\* what does hold: the pass still visits every repository of its list
StoppedPassVisitsAll ==
    fnPc = "done" =>
        \A id \in {MonoRepoID, KubeRepoID} : \E n \in 1..Len(fnOut.trace) : fnOut.trace[n].repo = id

(***************************************************************************)
(* Discovery of the monorepo's services by the sync (part_007:119-157,     *)
(* Client.DiscoverMicroservices) and by App.RediscoverRepositoryServices   *)
(* (app.go:350-396, discoverServices 286-330) over one unchanged remote    *)
(* repository: what GetContents answers for each directory is fixed.       *)
(***************************************************************************)
RemoteTrees == [{sServices, sApps} -> DirAnswers]

\* the path DiscoverMicroservicesInPath lists
ListedPath(path) ==
    LET cleaned == TrimPrefix(TrimSuffix(path, <<"/">>), <<".","/">>)
    IN  IF cleaned = <<>> THEN sServices ELSE cleaned

MonoRepoAt(location) == [Registered(<<>>)[MonoRepoID] EXCEPT !.ServiceLocation = location]

\* app.go:369-391
rediscoverServices(db, repo, tree, fk) ==
    LET found == DiscoverMicroservicesInPath(tree[ListedPath(repo.ServiceLocation)],
                                             repo.ServiceLocation)
    IN  IF found.err # "" THEN [db EXCEPT !.err = "failed to discover services"]
        ELSE UpsertServicesPreserveID(db, repo.ID, found.services, fk)

InitLocation ==
    /\ StoreIdle
    /\ fnIn \in [tree : RemoteTrees, location : {<<>>, sApps, sApps \o <<"/">>}, fk : BOOLEAN]
    /\ fnOut = [db |-> EmptyTables, before |-> EmptyTables]
    /\ fnPc = "registered"

\* App.RediscoverRepositoryServices
RediscoverServices ==
    /\ fnPc = "registered"
    /\ fnOut' = [db |-> rediscoverServices(fnOut.db, MonoRepoAt(fnIn.location), fnIn.tree, fnIn.fk),
                 before |-> fnOut.db]
    /\ fnPc' = "rediscovered"
    /\ UNCHANGED <<fnIn, storeVars, k8s, ops, last, sched>>

\* the sync that follows: syncMonorepo's discovery and upsert
SyncAfterRediscovery ==
    /\ fnPc = "rediscovered"
    /\ fnOut.db.err = ""
    /\ fnOut' = [db |-> syncMonorepoServices(fnOut.db, MonoRepoAt(fnIn.location),
                                             fnIn.tree[ListedPath(sServices)], fnIn.fk),
                 before |-> fnOut.db]
    /\ fnPc' = "synced"
    /\ UNCHANGED <<fnIn, storeVars, k8s, ops, last, sched>>

NextLocation == RediscoverServices \/ SyncAfterRediscovery

SpecLocation == InitLocation /\ [][NextLocation]_vars

\* C23: with the remote unchanged, a sync that follows a rediscovery leaves
\* the repository's Microservice rows, ids included, as the rediscovery left
\* them: both discover under the configured service location (the default
\* directory when none is set).
C23_SyncKeepsRediscoveredRows ==
    fnPc = "synced" => fnOut.db.microservices = fnOut.before.microservices

\* what does hold: the rows stay when no service location is configured
SyncKeepsRowsAtDefaultLocation ==
    fnPc = "synced" /\ fnIn.location = <<>> =>
        fnOut.db.microservices = fnOut.before.microservices

(***************************************************************************)
(* The commit SHA of a Deployment row from the scan to the write           *)
(* (client.go:376-394, part_007:201-225): the scan asks the kubernetes     *)
(* repository for the latest commit of the manifest, the sync resolves the *)
(* tag against the monorepo and falls back to the scan's commit.           *)
(***************************************************************************)
\* what Repositories.ListCommits(Path: path, PerPage: 1) answers for a manifest
ManifestCommits ==
    { [err |-> TRUE, commits |-> <<>>], [err |-> FALSE, commits |-> <<>>],
      [err |-> FALSE, commits |-> << [SHA |-> NIL] >>],
      [err |-> FALSE, commits |-> << [SHA |-> k8sCommit] >>] }

\* client.go:377-384
LatestCommit(listed) ==
    IF ~listed.err /\ Len(listed.commits) > 0 /\ listed.commits[1].SHA # NIL
    THEN listed.commits[1].SHA
    ELSE <<>>

\* the rows one kubernetes sync writes for one manifest of service api
WrittenFor(content, listed, remote) ==
    LET repos == Registered(<<>>)
        file == RemoteFile(<<sServices, api, sOverlays, prd, us, nsa, sKustomization>>,
                           "ok", content, LatestCommit(listed))
        scanned == ScanKustomizationFiles(<<file>>)
    IN  [n \in 1..Len(scanned) |->
            DeploymentOf(SyncedOnce, repos, repos[KubeRepoID], 1, scanned[n], remote)]

InitFallback ==
    /\ StoreIdle
    /\ fnIn \in [content : {ContentApiV1, ContentApiV2}, listed : ManifestCommits,
                 remote : Remotes]
    /\ fnOut = <<>>
    /\ fnPc = "ready"

ScanAndResolve ==
    /\ fnPc = "ready"
    /\ fnOut' = WrittenFor(fnIn.content, fnIn.listed, fnIn.remote)
    /\ fnPc' = "done"
    /\ UNCHANGED <<fnIn, storeVars, k8s, ops, last, sched>>

NextFallback == ScanAndResolve

SpecFallback == InitFallback /\ [][NextFallback]_vars

\* C24: every Deployment row a kubernetes sync writes has a non-empty commit
\* SHA: when no correlation strategy succeeds it is the kubernetes
\* repository's latest commit for the manifest.
C24_CommitShaNeverEmpty ==
    fnPc = "done" => \A n \in 1..Len(fnOut) : fnOut[n].CommitSHA # <<>>

\* what does hold: with a commit listed for the manifest the SHA is never empty
CommitShaSetWhenListed ==
    (fnPc = "done" /\ LatestCommit(fnIn.listed) # <<>>) =>
        /\ Len(fnOut) = 1
        /\ fnOut[1].CommitSHA # <<>>

\* the VCS tags of the listing whose name equals the tag without regard to case
EqualFoldTags(tags, tag) ==
    {i \in 1..Len(tags) : tags[i].Name # NIL /\ tags[i].SHA # NIL /\ EqualFold(tags[i].Name, tag)}

\* C25: when the commit-message strategies yield no match for a tag, the
\* failure of the commit listing included, and the monorepo lists a VCS tag
\* whose name equals the tag case-insensitively, the correlation returns that
\* VCS tag's commit SHA.
C25_VcsTagFallback ==
    (/\ fnPc = "done"
     /\ fnIn.remote.commitsErr \/ MatchCommits(fnIn.remote.commits, 1, fnIn.tag) = <<>>
     /\ ~fnIn.remote.tagsErr
     /\ EqualFoldTags(fnIn.remote.tags, fnIn.tag) # {})
        => \E i \in EqualFoldTags(fnIn.remote.tags, fnIn.tag) : fnOut = fnIn.remote.tags[i].SHA

\* what does hold: the fallback is taken when the commit listing succeeded
VcsTagFallbackAfterListing ==
    (/\ fnPc = "done"
     /\ ~fnIn.remote.commitsErr
     /\ MatchCommits(fnIn.remote.commits, 1, fnIn.tag) = <<>>
     /\ ~fnIn.remote.tagsErr
     /\ EqualFoldTags(fnIn.remote.tags, fnIn.tag) # {})
        => \E i \in EqualFoldTags(fnIn.remote.tags, fnIn.tag) : fnOut = fnIn.remote.tags[i].SHA

\* the fallback was taken for a VCS tag that differs from the tag in case
VcsTagFallbackTaken ==
    /\ fnPc = "done"
    /\ ~fnIn.remote.commitsErr
    /\ MatchCommits(fnIn.remote.commits, 1, fnIn.tag) = <<>>
    /\ \E i \in EqualFoldTags(fnIn.remote.tags, fnIn.tag) :
          fnIn.remote.tags[i].Name # fnIn.tag /\ fnOut = fnIn.remote.tags[i].SHA

(***************************************************************************)
(* The reconciliations of one repository's sync in sequence                *)
(* (part_007:154-164, 248-275): the entity rows first, then the workflow   *)
(* runs; an error of the first is returned, an error of the second logged. *)
(***************************************************************************)
\* part_007:154-164, with a failure of the services transaction at statement failAt
ReconcileMonorepo(db, repo, services, remote, fk, failAt) ==
    LET upserted == FailingUpsertServices(db, repo.ID, services, fk, failAt)
    IN  IF upserted.err # "" THEN upserted
        ELSE [syncWorkflowRuns(upserted, repo, remote) EXCEPT !.err = ""]

\* part_007:248-275, with a failure of the resources transaction at statement failAt
ReconcileKubernetesRepo(db, repo, listing, remote, fk, failAt) ==
    LET found == DiscoverKubernetesResourcesInPath(listing, repo.ServiceLocation)
        upserted == FailingUpsertResources(db, repo.ID, found.resources, fk, failAt)
    IN  IF found.err # "" THEN [db EXCEPT !.err = found.err]
        ELSE IF upserted.err # "" THEN upserted
        ELSE [syncWorkflowRuns(upserted, repo, remote) EXCEPT !.err = ""]

InitEntities ==
    /\ StoreIdle
    /\ fnIn \in [repo : {MonoRepoID}, db : BulkStores, found : ServiceBatches,
                 remote : WorkflowVocab, failAt : 0..(MaxBatch + 1), fk : BOOLEAN]
            \cup [repo : {KubeRepoID}, db : BulkStores, found : ListingVocab,
                  remote : WorkflowVocab, failAt : 0..(MaxBatch + 1), fk : BOOLEAN]
    /\ fnOut = <<>>
    /\ fnPc = "ready"

SyncMonorepoEntities ==
    /\ fnPc = "ready"
    /\ fnIn.repo = MonoRepoID
    /\ fnOut' = ReconcileMonorepo(fnIn.db, Registered(<<>>)[MonoRepoID], fnIn.found,
                                  fnIn.remote, fnIn.fk, fnIn.failAt)
    /\ fnPc' = "done"
    /\ UNCHANGED <<fnIn, storeVars, k8s, ops, last, sched>>

SyncKubernetesEntities ==
    /\ fnPc = "ready"
    /\ fnIn.repo = KubeRepoID
    /\ fnOut' = ReconcileKubernetesRepo(fnIn.db, Registered(<<>>)[KubeRepoID], fnIn.found,
                                        fnIn.remote, fnIn.fk, fnIn.failAt)
    /\ fnPc' = "done"
    /\ UNCHANGED <<fnIn, storeVars, k8s, ops, last, sched>>

NextEntities == SyncMonorepoEntities \/ SyncKubernetesEntities

SpecEntities == InitEntities /\ [][NextEntities]_vars

\* the sync's reconciliation of Microservices or KubernetesResources failed
EntityReconciliationFailed ==
    /\ fnPc = "done"
    /\ fnOut.err # ""
    /\ fnOut.err # "discoverResources"

\* C26: within one repository's sync a reconciliation failure of one entity
\* type does not affect the others: the rows of the other entity types stay
\* intact, and the repository's workflow Actions are still reconciled in the
\* same sync.
C26_OtherEntitiesStillReconciled ==
    EntityReconciliationFailed =>
        /\ fnOut.deployments = fnIn.db.deployments
        /\ fnOut.actions = syncWorkflowRuns(fnIn.db, Registered(<<>>)[fnIn.repo], fnIn.remote).actions

\* what does hold: the failed transaction leaves every table as it was
FailedReconciliationChangesNothing ==
    EntityReconciliationFailed =>
        /\ fnOut.microservices = fnIn.db.microservices
        /\ fnOut.resources = fnIn.db.resources
        /\ fnOut.deployments = fnIn.db.deployments
        /\ fnOut.actions = fnIn.db.actions

\* C27: two concurrent Deployment upserts for the same (service, environment,
\* region, namespace), one of the manual and one of the scheduled sync of the
\* kubernetes repository, are tolerated under every interleaving of their
\* SELECT and write steps: the upsert returns no error, exactly one row exists
\* for the key afterwards, and it carries the values of this last write.
C27_ConcurrentUpsertsTolerated ==
    (/\ last.kind = "upsert"
     /\ ~last.alone
     /\ \E m \in microservices : m.ID = last.deployment.ServiceID)
        => /\ last.err = ""
           /\ \E r \in deployments :
                 /\ SameTarget(r, last.deployment)
                 /\ r.CommitSHA = last.deployment.CommitSHA
                 /\ r.Tag = last.deployment.Tag
                 /\ r.Path = last.deployment.Path
           /\ C3_TargetUnique

\* what does hold: an upsert whose SELECT found the row is tolerated whatever
\* ran between its SELECT and its UPDATE
InterleavedUpdateTolerated ==
    (/\ last.kind = "upsert"
     /\ ~last.alone
     /\ last.existingID # 0
     /\ \E r \in deployments : r.ID = last.existingID)
        => /\ last.err = ""
           /\ \E r \in deployments :
                 /\ SameTarget(r, last.deployment)
                 /\ r.Tag = last.deployment.Tag
                 /\ r.CommitSHA = last.deployment.CommitSHA

(***************************************************************************)
(* The service a manifest is attached to (part_007:179-199): the first row *)
(* of MicroserviceModel.GetAll (ORDER BY name, part_003:245-277) whose     *)
(* name contains, or is contained in, the derived service name.            *)
(***************************************************************************)
MaxServices == 3

StoredNames == {<<"a">>, api, <<"A","p","i">>, sApiGw, web}

\* rows of the given names, ids in the order of the sequence
ServiceRows(names) ==
    {[ID |-> i, RepositoryID |-> MonoRepoID, Name |-> names[i],
      Path |-> sServices \o <<"/">> \o names[i], Description |-> "d0"] : i \in 1..Len(names)}

NameLists ==
    {n \in SeqsUpTo(StoredNames, MaxServices) : \A i \in 1..Len(n), j \in 1..Len(n) : i # j => n[i] # n[j]}

\* MicroserviceModel.GetAll
GetAllServices(rows) == OrderByName(rows)

InitMatch ==
    /\ StoreIdle
    /\ fnIn \in [names : NameLists, derived : {api, sApiGw, web}]
    /\ fnOut = 0
    /\ fnPc = "ready"

Match ==
    /\ fnPc = "ready"
    /\ fnOut' = MatchService(GetAllServices(ServiceRows(fnIn.names)),
                             [Manifest(v1) EXCEPT !.ServiceName = fnIn.derived])
    /\ fnPc' = "done"
    /\ UNCHANGED <<fnIn, storeVars, k8s, ops, last, sched>>

NextMatch == Match

SpecMatch == InitMatch /\ [][NextMatch]_vars

\* C28: when a Microservice whose name equals the derived service name
\* case-insensitively is stored, the manifest's Deployment is attached to a
\* Microservice of that name, whatever other stored names contain the derived
\* name or are contained in it.
C28_ExactNameWins ==
    (/\ fnPc = "done"
     /\ \E r \in ServiceRows(fnIn.names) : EqualFold(r.Name, fnIn.derived))
        => \E r \in ServiceRows(fnIn.names) : r.ID = fnOut /\ EqualFold(r.Name, fnIn.derived)

\* what does hold: a manifest is attached whenever a row of its name is stored
\* (to a row whose name contains the derived name or is contained in it)
ExactNameIsAttached ==
    (/\ fnPc = "done"
     /\ \E r \in ServiceRows(fnIn.names) : EqualFold(r.Name, fnIn.derived))
        => \E r \in ServiceRows(fnIn.names) :
              /\ r.ID = fnOut
              /\ \/ Contains(ToLower(r.Name), ToLower(fnIn.derived))
                 \/ Contains(ToLower(fnIn.derived), ToLower(r.Name))

(***************************************************************************)
(* Resource discovery of a kubernetes sync when the directory listings     *)
(* fail (client.go:149-199, part_007:240-268).                             *)
(***************************************************************************)
KubeRepoAt(rootPath) == [Registered(<<>>)[KubeRepoID] EXCEPT !.ServiceLocation = rootPath]

\* the store after a monorepo sync and a kubernetes sync: resource api of the
\* kubernetes repository with the Action of a workflow run linked to it
KubeSyncedOnce ==
    syncWorkflowRuns(UpsertResources(SyncedOnce, KubeRepoID, <<resDeployment>>, TRUE),
                     KubeRepoAt(sK8s), CHOOSE w \in WorkflowVocab : w.status = "ok")

InitListing ==
    /\ StoreIdle
    /\ fnIn \in [db : {EmptyTables, SyncedOnce, KubeSyncedOnce}, listing : ListingVocab,
                 rootPath : {<<>>, <<".">>, sK8s}, remote : WorkflowVocab, fk : BOOLEAN]
    /\ fnOut = <<>>
    /\ fnPc = "ready"

DiscoverResources ==
    /\ fnPc = "ready"
    /\ fnOut' = ReconcileKubernetesRepo(fnIn.db, KubeRepoAt(fnIn.rootPath), fnIn.listing,
                                        fnIn.remote, fnIn.fk, 0)
    /\ fnPc' = "done"
    /\ UNCHANGED <<fnIn, storeVars, k8s, ops, last, sched>>

NextListing == DiscoverResources

SpecListing == InitListing /\ [][NextListing]_vars

LinkedActions(db) == {a \in db.actions : a.ResourceID # 0}

\* C29: when the remote directory listings of a kubernetes sync fail, the
\* repository's stored KubernetesResource rows and the Action rows linked to
\* them are unchanged after the sync: a failed listing is never reconciled
\* as an empty discovery.
C29_FailedListingKeepsResources ==
    (fnPc = "done" /\ fnIn.listing.status = "error") =>
        /\ fnOut.resources = fnIn.db.resources
        /\ LinkedActions(fnIn.db) \subseteq fnOut.actions

\* what does hold: the rows stay when a root path is configured
FailedListingAtRootPathKeepsResources ==
    (fnPc = "done" /\ fnIn.listing.status = "error" /\ fnIn.rootPath = sK8s) =>
        /\ fnOut.err # ""
        /\ fnOut.resources = fnIn.db.resources
        /\ fnOut.actions = fnIn.db.actions

\* the stored resource has a linked Action
LinkedActionStored == fnPc = "done" /\ LinkedActions(fnIn.db) # {} /\ fnIn.listing.status = "error"

(***************************************************************************)
(* Deployment rows over successive operations on the store: kubernetes     *)
(* syncs (part_007:167-276), monorepo syncs, which delete Microservice     *)
(* rows (part_007:119-157), and App.TestScanKubernetesDeployments          *)
(* (app.go:1420-1461), which clears table deployments and then runs the    *)
(* kubernetes sync.  One operation at a time.                              *)
(***************************************************************************)
MaxSyncs == 3

\* part_007:179-231: the loop over the scanned manifests; an upsert's error is logged
RECURSIVE UpsertDeployments(_, _, _, _, _)
UpsertDeployments(db, allServices, queue, remote, fk) ==
    IF queue = <<>> THEN db
    ELSE LET kustomDeploy == Head(queue)
             serviceID == MatchService(allServices, kustomDeploy)
             repos == Registered(<<>>)
             deployment == DeploymentOf(db, repos, repos[KubeRepoID], serviceID,
                                        kustomDeploy, remote)
             written == UpsertWrite(db, deployment, ExistingID(db.deployments, deployment), fk)
         IN  IF serviceID = 0 THEN UpsertDeployments(db, allServices, Tail(queue), remote, fk)
             ELSE UpsertDeployments(IF written.err = "" THEN written ELSE db,
                                    allServices, Tail(queue), remote, fk)

\* part_007:167-276
syncKubernetesRepo(db, files, remote, listing, fk) ==
    ReconcileKubernetesRepo(
        UpsertDeployments(db, GetAllServices(db.microservices),
                          ScanKustomizationFiles(files), remote, fk),
        KubeRepoAt(sK8s), listing, CHOOSE w \in WorkflowVocab : w.status = "error", fk, 0)

\* app.go:1457-1464
clearAllDeployments(db) == [db EXCEPT !.deployments = {}]

Operation(op, db, before, scanned, n) ==
    [op |-> op, db |-> [db EXCEPT !.err = ""], before |-> before, scanned |-> scanned, n |-> n]

InitPersist ==
    /\ StoreIdle
    /\ fnIn = <<>>
    /\ fnOut = Operation("none", SyncedOnce, SyncedOnce, <<>>, 0)
    /\ fnPc = "idle"

KubernetesSync(files, remote, listing, fk) ==
    /\ fnOut.n < MaxSyncs
    /\ fnOut' = Operation("syncKubernetesRepo",
                          syncKubernetesRepo(fnOut.db, files, remote, listing, fk),
                          fnOut.db, files, fnOut.n + 1)
    /\ UNCHANGED <<fnIn, fnPc, storeVars, k8s, ops, last, sched>>

MonorepoSync(dir, fk) ==
    /\ fnOut.n < MaxSyncs
    /\ fnOut' = Operation("syncMonorepo",
                          syncMonorepoServices(fnOut.db, Registered(<<>>)[MonoRepoID], dir, fk),
                          fnOut.db, <<>>, fnOut.n + 1)
    /\ UNCHANGED <<fnIn, fnPc, storeVars, k8s, ops, last, sched>>

TestScanKubernetesDeployments(files, remote, listing, fk) ==
    /\ fnOut.n < MaxSyncs
    /\ fnOut' = Operation("TestScanKubernetesDeployments",
                          syncKubernetesRepo(clearAllDeployments(fnOut.db), files, remote,
                                             listing, fk),
                          fnOut.db, files, fnOut.n + 1)
    /\ UNCHANGED <<fnIn, fnPc, storeVars, k8s, ops, last, sched>>

NextPersist ==
    \/ \E files \in SyncFileLists \cup {<<>>}, remote \in SyncRemotes,
          listing \in ListingVocab, fk \in BOOLEAN : KubernetesSync(files, remote, listing, fk)
    \/ \E dir \in DirVocab, fk \in BOOLEAN : MonorepoSync(dir, fk)
    \/ \E files \in SyncFileLists \cup {<<>>}, remote \in SyncRemotes,
          listing \in ListingVocab, fk \in BOOLEAN :
             TestScanKubernetesDeployments(files, remote, listing, fk)

SpecPersist == InitPersist /\ [][NextPersist]_vars

\* the rows of before the last operation that it removed
RemovedDeployments ==
    {d \in fnOut.before.deployments :
        ~ \E e \in fnOut.db.deployments : e.ID = d.ID /\ SameTarget(e, d)}

MicroserviceGone(d) == ~ \E m \in fnOut.db.microservices : m.ID = d.ServiceID

====
